---- MODULE Spec2Model ----
(***************************************************************************)
(* Model of the attestation-driven admission controller:                   *)
(*   policy_config.py     PolicyManager (policy store and resolver)        *)
(*   image_attestation.py ImageAttestationVerifier (verifier and cache)    *)
(*   webhook.py           RealAdmissionController (admission decisions)    *)
(*                                                                         *)
(* Conventions.  A Python string that the code takes apart (an image       *)
(* reference, a pattern, a registry) is a sequence of one-character        *)
(* strings.  Optional[X] is a sequence of length 0 (None) or 1 (a value).  *)
(* A Python list is a sequence.                                            *)
(***************************************************************************)
EXTENDS Integers, Sequences, FiniteSets, TLC

VARIABLES
    config_file,    \* content of the policy file at self.config_path
    policy_config,  \* PolicyManager.policy_config
    resolved,       \* the last get_policy_for_request call and what it returned
    policy,         \* ImageAttestationVerifier.policy (one attribute, shared)
    cache,          \* ImageAttestationVerifier.cache, least recently used first
    now,            \* the cache's timer
    req,            \* the admission request being handled by validate_pod
    last_call,      \* the last verifier call: its key, when, and what it did
    th,             \* the threads handling /verify-image requests
    loading,        \* the _load_policy call in progress
    resolving,      \* the get_policy_for_request call in progress
    matching,       \* the last _match_pattern call and what it returned
    checking        \* the last _apply_policy_checks call and what it returned

vars == <<config_file, policy_config, resolved, policy, cache, now, req,
          last_call, th, loading, resolving, matching, checking>>

---------------------------------------------------------------------------
(* Python values *)

None == <<>>
Some(x) == <<x>>

\* dict.get(key, default)
Get(opt, default) == IF opt = None THEN default ELSE opt[1]

\* bool(x) of an Optional[List] / Optional[str]: None and empty are false
Truthy(opt) == opt # None /\ opt[1] # <<>>

\* bool(x) of an Optional[int]: None and 0 are false
TruthyInt(opt) == opt # None /\ opt[1] # 0

\* bool(x) of an Optional[str]: None and "" are false
TruthyStr(opt) == opt # None /\ opt[1] # ""

\* a or b
Or(a, b) == IF Truthy(a) THEN a ELSE b
OrInt(a, b) == IF TruthyInt(a) THEN a ELSE b

\* x in list
In(x, list) == \E i \in 1..Len(list) : list[i] = x

\* the text 'docker.io'
DockerHub == <<"d", "o", "c", "k", "e", "r", ".", "i", "o">>

\* str.startswith, str.endswith
startswith(text, prefix) ==
    /\ Len(prefix) <= Len(text)
    /\ SubSeq(text, 1, Len(prefix)) = prefix

endswith(text, suffix) ==
    /\ Len(suffix) <= Len(text)
    /\ SubSeq(text, Len(text) - Len(suffix) + 1, Len(text)) = suffix

\* str.split(sep) for a one-character separator
RECURSIVE split(_, _)
split(s, sep) ==
    IF ~In(sep, s) THEN <<s>>
    ELSE LET i == CHOOSE k \in 1..Len(s) :
                      s[k] = sep /\ \A j \in 1..(k - 1) : s[j] # sep
         IN  <<SubSeq(s, 1, i - 1)>> \o split(SubSeq(s, i + 1, Len(s)), sep)

\* fnmatch.fnmatch on a POSIX host (no case folding): "*" any run, "?" one
\* character, everything else literal.  The alphabet has no "[".
RECURSIVE fnmatch(_, _)
fnmatch(text, pat) ==
    IF pat = <<>> THEN text = <<>>
    ELSE IF pat[1] = "*"
         THEN \E k \in 0..Len(text) :
                  fnmatch(SubSeq(text, k + 1, Len(text)), Tail(pat))
    ELSE IF text = <<>> THEN FALSE
    ELSE /\ (pat[1] = "?" \/ pat[1] = text[1])
         /\ fnmatch(Tail(text), Tail(pat))

---------------------------------------------------------------------------
(* image_attestation.py: AttestationPolicy *)

\* AttestationPolicy(...) with the dataclass defaults for what is not passed
AttestationPolicy(rs, signers, tlog, chain, registries, slsa, prov) ==
    [require_signature         |-> rs,
     allowed_signers           |-> signers,
     require_transparency_log  |-> tlog,
     require_certificate_chain |-> chain,
     allowed_registries        |-> registries,
     min_slsa_level            |-> slsa,
     require_provenance        |-> prov,
     custom_policies           |-> None]

\* AttestationPolicy(require_signature=False)
ExemptPolicy ==
    AttestationPolicy(FALSE, None, TRUE, FALSE, None, None, FALSE)

---------------------------------------------------------------------------
(* policy_config.py: the policy store *)

DefaultExemptNamespaces == <<"kube-system", "kube-public", "kube-node-lease">>

\* GlobalPolicy() with the dataclass defaults
GlobalPolicy ==
    [default_require_signature  |-> TRUE,
     default_allowed_registries |-> None,
     default_allowed_signers    |-> None,
     require_transparency_log   |-> TRUE,
     require_certificate_chain  |-> FALSE,
     min_slsa_level             |-> Some(0),
     require_provenance         |-> FALSE,
     exempt_namespaces          |-> DefaultExemptNamespaces,
     exempt_images              |-> <<>>,
     emergency_bypass           |-> FALSE,
     emergency_bypass_token     |-> None]

\* PolicyConfiguration() with the dataclass defaults
PolicyConfiguration ==
    [global_policy      |-> GlobalPolicy,
     namespace_policies |-> <<>>,
     image_policies     |-> <<>>,
     version            |-> "1.0",
     last_updated       |-> None]

\* The process environment, read by _load_default_policy: no variable is set.
\* A list variable is given as the Optional list of its comma-separated items.
Env ==
    [ATTESTATION_REQUIRE_SIGNATURE        |-> None,
     ATTESTATION_ALLOWED_REGISTRIES       |-> None,
     ATTESTATION_ALLOWED_SIGNERS          |-> None,
     ATTESTATION_REQUIRE_TRANSPARENCY_LOG |-> None,
     ATTESTATION_REQUIRE_CERT_CHAIN       |-> None,
     ATTESTATION_MIN_SLSA_LEVEL           |-> None,
     ATTESTATION_REQUIRE_PROVENANCE       |-> None,
     ATTESTATION_EXEMPT_NAMESPACES        |-> None,
     ATTESTATION_EXEMPT_IMAGES            |-> None,
     ATTESTATION_EMERGENCY_BYPASS         |-> None,
     ATTESTATION_EMERGENCY_BYPASS_TOKEN   |-> None]

\* _parse_env_list: the list of the stripped non-empty items, None for a
\* variable that is unset or blank
_parse_env_list(v) == v

\* os.getenv(name, default).lower() == 'true'
EnvTrue(v, default) == Get(v, default) = "true"

_load_default_policy ==
    [global_policy |->
        [default_require_signature  |->
             EnvTrue(Env.ATTESTATION_REQUIRE_SIGNATURE, "true"),
         default_allowed_registries |->
             _parse_env_list(Env.ATTESTATION_ALLOWED_REGISTRIES),
         default_allowed_signers    |->
             _parse_env_list(Env.ATTESTATION_ALLOWED_SIGNERS),
         require_transparency_log   |->
             EnvTrue(Env.ATTESTATION_REQUIRE_TRANSPARENCY_LOG, "true"),
         require_certificate_chain  |->
             EnvTrue(Env.ATTESTATION_REQUIRE_CERT_CHAIN, "false"),
         min_slsa_level             |->
             Some(Get(Env.ATTESTATION_MIN_SLSA_LEVEL, 0)),
         require_provenance         |->
             EnvTrue(Env.ATTESTATION_REQUIRE_PROVENANCE, "false"),
         exempt_namespaces          |->
             Get(Or(_parse_env_list(Env.ATTESTATION_EXEMPT_NAMESPACES),
                    Some(DefaultExemptNamespaces)), <<>>),
         exempt_images              |->
             Get(Or(_parse_env_list(Env.ATTESTATION_EXEMPT_IMAGES),
                    Some(<<>>)), <<>>),
         emergency_bypass           |->
             EnvTrue(Env.ATTESTATION_EMERGENCY_BYPASS, "false"),
         emergency_bypass_token     |->
             Env.ATTESTATION_EMERGENCY_BYPASS_TOKEN],
     namespace_policies |-> <<>>,
     image_policies     |-> <<>>,
     version            |-> "1.0",
     last_updated       |-> None]

\* GlobalPolicy(...) from config_data['global']
ParseGlobal(g) ==
    [default_require_signature  |-> Get(g.default_require_signature, TRUE),
     default_allowed_registries |-> g.default_allowed_registries,
     default_allowed_signers    |-> g.default_allowed_signers,
     require_transparency_log   |-> Get(g.require_transparency_log, TRUE),
     require_certificate_chain  |-> Get(g.require_certificate_chain, FALSE),
     min_slsa_level             |-> Some(Get(g.min_slsa_level, 0)),
     require_provenance         |-> Get(g.require_provenance, FALSE),
     exempt_namespaces          |-> Get(g.exempt_namespaces,
                                        DefaultExemptNamespaces),
     exempt_images              |-> Get(g.exempt_images, <<>>),
     emergency_bypass           |-> Get(g.emergency_bypass, FALSE),
     emergency_bypass_token     |-> g.emergency_bypass_token]

\* NamespacePolicy(...) from one entry of config_data['namespaces']
ParseNamespace(n) ==
    [namespace                |-> n.namespace[1],
     require_signature        |-> Get(n.require_signature, TRUE),
     allowed_signers          |-> n.allowed_signers,
     allowed_registries       |-> n.allowed_registries,
     require_transparency_log |-> Get(n.require_transparency_log, TRUE),
     min_slsa_level           |-> n.min_slsa_level,
     require_provenance       |-> Get(n.require_provenance, FALSE),
     custom_rules             |-> None]

\* ImagePolicy(...) from one entry of config_data['images']
ParseImage(m) ==
    [image_pattern     |-> m.image_pattern[1],
     require_signature |-> Get(m.require_signature, TRUE),
     allowed_signers   |-> m.allowed_signers,
     priority          |-> Get(m.priority, 0),
     description       |-> m.description]

\* a sort that is not stable: ascending, then reversed
RECURSIVE SortReversed(_)
SortReversed(list) ==
    IF list = <<>> THEN <<>>
    ELSE LET n      == Len(list)
             sorted == SortReversed(SubSeq(list, 1, n - 1))
             x      == list[n]
             k      == Cardinality({i \in 1..Len(sorted) :
                                       sorted[i].priority > x.priority})
         IN  SubSeq(sorted, 1, k) \o <<x>> \o SubSeq(sorted, k + 1, Len(sorted))

\* list.sort(key=lambda x: x.priority, reverse=True): a stable sort, equal
\* priorities keep their order (insertion of each entry after every entry of
\* priority at least its own)
RECURSIVE SortByPriority(_)
SortByPriority(list) ==
    IF list = <<>> THEN <<>>
    ELSE LET n      == Len(list)
             sorted == SortByPriority(SubSeq(list, 1, n - 1))
             x      == list[n]
             k      == Cardinality({i \in 1..Len(sorted) :
                                       sorted[i].priority >= x.priority})
         IN  SubSeq(sorted, 1, k) \o <<x>> \o SubSeq(sorted, k + 1, Len(sorted))

\* whether _parse_config raises: an entry without its mandatory key
\* (ns_data['namespace'], img_data['image_pattern'])
ParseRaises(data) ==
    \/ /\ data.namespaces # None
       /\ \E i \in 1..Len(data.namespaces[1]) :
              data.namespaces[1][i].namespace = None
    \/ /\ data.images # None
       /\ \E i \in 1..Len(data.images[1]) :
              data.images[1][i].image_pattern = None

\* _parse_config when it does not raise: each section present in the file
\* replaces that section of self.policy_config, an absent one leaves it
_parse_config(pc, data) ==
    [global_policy      |->
         IF data.global # None THEN ParseGlobal(data.global[1])
         ELSE pc.global_policy,
     namespace_policies |->
         IF data.namespaces # None
         THEN [i \in 1..Len(data.namespaces[1]) |->
                   ParseNamespace(data.namespaces[1][i])]
         ELSE pc.namespace_policies,
     image_policies     |->
         IF data.images # None
         THEN SortByPriority([i \in 1..Len(data.images[1]) |->
                                  ParseImage(data.images[1][i])])
         ELSE pc.image_policies,
     version            |-> Get(data.version, "1.0"),
     last_updated       |-> data.last_updated]

\* a load that reads the file into a fresh store only, and otherwise falls
\* back to the defaults
_load_policy_resets(pc, file) ==
    IF pc # PolicyConfiguration THEN _load_default_policy
    ELSE IF file.kind = "missing" THEN _load_default_policy
    ELSE IF file.kind = "malformed" THEN _load_default_policy
    ELSE IF ParseRaises(file.data) THEN _load_default_policy
    ELSE _parse_config(pc, file.data)

\* _load_policy: a missing file, a file that does not parse and a parse that
\* raises all end in _load_default_policy, which replaces the whole store
_load_policy(pc, file) ==
    IF file.kind = "missing" THEN _load_default_policy
    ELSE IF file.kind = "malformed" THEN _load_default_policy
    ELSE IF ParseRaises(file.data) THEN _load_default_policy
    ELSE _parse_config(pc, file.data)

---------------------------------------------------------------------------
(* policy_config.py: the resolver *)

\* a matcher whose prefix and suffix may not overlap in the text
_match_pattern_disjoint(text, pattern) ==
    IF pattern = <<"*">> THEN TRUE
    ELSE IF ~In("*", pattern) THEN text = pattern
    ELSE LET parts == split(pattern, "*")
         IN  IF Len(parts) = 2
             THEN /\ Len(text) >= Len(parts[1]) + Len(parts[2])
                  /\ startswith(text, parts[1])
                  /\ endswith(text, parts[2])
             ELSE fnmatch(text, pattern)

\* PolicyManager._match_pattern
_match_pattern(text, pattern) ==
    IF pattern = <<"*">> THEN TRUE
    ELSE IF ~In("*", pattern) THEN text = pattern
    ELSE LET parts == split(pattern, "*")
         IN  IF Len(parts) = 2
             THEN startswith(text, parts[1]) /\ endswith(text, parts[2])
             ELSE fnmatch(text, pattern)

_is_image_exempt(pc, image) ==
    \E i \in 1..Len(pc.global_policy.exempt_images) :
        _match_pattern(image, pc.global_policy.exempt_images[i])

\* the first namespace policy of that name, as an Optional
_find_namespace_policy(pc, namespace) ==
    LET hits == {i \in 1..Len(pc.namespace_policies) :
                    pc.namespace_policies[i].namespace = namespace}
    IN  IF hits = {} THEN None
        ELSE Some(pc.namespace_policies[
                      CHOOSE i \in hits : \A j \in hits : i <= j])

\* the last matching image policy instead of the first
_find_image_policy_last(pc, image) ==
    LET hits == {i \in 1..Len(pc.image_policies) :
                    _match_pattern(image, pc.image_policies[i].image_pattern)}
    IN  IF hits = {} THEN None
        ELSE Some(pc.image_policies[
                      CHOOSE i \in hits : \A j \in hits : i >= j])

\* the first image policy of the (sorted) list whose pattern matches
_find_image_policy(pc, image) ==
    LET hits == {i \in 1..Len(pc.image_policies) :
                    _match_pattern(image, pc.image_policies[i].image_pattern)}
    IN  IF hits = {} THEN None
        ELSE Some(pc.image_policies[
                      CHOOSE i \in hits : \A j \in hits : i <= j])

\* a merge that takes the namespace record's lists and level as they are
_merge_namespace_no_fallback(base, ns) ==
    AttestationPolicy(
        ns.require_signature,
        ns.allowed_signers,
        ns.require_transparency_log,
        base.require_certificate_chain,
        ns.allowed_registries,
        ns.min_slsa_level,
        ns.require_provenance)

\* a merge in which the stricter signature requirement wins
_merge_namespace_strictest(base, ns) ==
    AttestationPolicy(
        ns.require_signature \/ base.require_signature,
        Or(ns.allowed_signers, base.allowed_signers),
        ns.require_transparency_log,
        base.require_certificate_chain,
        Or(ns.allowed_registries, base.allowed_registries),
        OrInt(ns.min_slsa_level, base.min_slsa_level),
        ns.require_provenance)

_merge_namespace_policy(base, ns) ==
    AttestationPolicy(
        ns.require_signature,
        Or(ns.allowed_signers, base.allowed_signers),
        ns.require_transparency_log,
        base.require_certificate_chain,
        Or(ns.allowed_registries, base.allowed_registries),
        OrInt(ns.min_slsa_level, base.min_slsa_level),
        ns.require_provenance)

\* a merge in which an image policy can only add the signature requirement
_merge_image_policy_strictest(base, img) ==
    AttestationPolicy(
        base.require_signature \/ img.require_signature,
        Or(img.allowed_signers, base.allowed_signers),
        base.require_transparency_log,
        base.require_certificate_chain,
        base.allowed_registries,
        base.min_slsa_level,
        base.require_provenance)

\* a merge that builds the policy from the image policy alone
_merge_image_policy_fresh(base, img) ==
    AttestationPolicy(
        img.require_signature,
        Or(img.allowed_signers, base.allowed_signers),
        TRUE, FALSE, None, None, FALSE)

_merge_image_policy(base, img) ==
    AttestationPolicy(
        img.require_signature,
        Or(img.allowed_signers, base.allowed_signers),
        base.require_transparency_log,
        base.require_certificate_chain,
        base.allowed_registries,
        base.min_slsa_level,
        base.require_provenance)

\* the policy seeded from the global defaults
GlobalDefaults(pc) ==
    AttestationPolicy(
        pc.global_policy.default_require_signature,
        pc.global_policy.default_allowed_signers,
        pc.global_policy.require_transparency_log,
        pc.global_policy.require_certificate_chain,
        pc.global_policy.default_allowed_registries,
        pc.global_policy.min_slsa_level,
        pc.global_policy.require_provenance)

\* a resolver that lets a namespace policy or an image policy override the
\* exemptions
get_policy_overrides_first(pc, namespace, image) ==
    LET seeded == GlobalDefaults(pc)
        ns     == _find_namespace_policy(pc, namespace)
        afterN == IF ns # None
                  THEN _merge_namespace_policy(seeded, ns[1])
                  ELSE seeded
        img    == _find_image_policy(pc, image)
    IN  IF img # None THEN _merge_image_policy(afterN, img[1])
        ELSE IF ns # None THEN afterN
        ELSE IF In(namespace, pc.global_policy.exempt_namespaces)
             THEN ExemptPolicy
        ELSE IF _is_image_exempt(pc, image) THEN ExemptPolicy
        ELSE afterN

get_policy_for_request(pc, namespace, image) ==
    IF In(namespace, pc.global_policy.exempt_namespaces) THEN ExemptPolicy
    ELSE IF _is_image_exempt(pc, image) THEN ExemptPolicy
    ELSE LET seeded == GlobalDefaults(pc)
             ns     == _find_namespace_policy(pc, namespace)
             afterN == IF ns # None
                       THEN _merge_namespace_policy(seeded, ns[1])
                       ELSE seeded
             img    == _find_image_policy(pc, image)
         IN  IF img # None THEN _merge_image_policy(afterN, img[1])
             ELSE afterN

\* a bypass check that accepts every token
is_emergency_bypass_any_token(pc, bypass_token) ==
    pc.global_policy.emergency_bypass

\* PolicyManager.is_emergency_bypass_enabled
is_emergency_bypass_enabled(pc, bypass_token) ==
    IF ~pc.global_policy.emergency_bypass THEN FALSE
    ELSE IF TruthyStr(pc.global_policy.emergency_bypass_token)
         THEN bypass_token = pc.global_policy.emergency_bypass_token
         ELSE TRUE

---------------------------------------------------------------------------
(* image_attestation.py: the verification cache (cachetools.TTLCache) *)

\* TTLCache(maxsize=1000, ttl=cache_ttl), cache_ttl = 300: scaled down
maxsize == 2
ttl == 2

\* _get_cache_key: sha256 of "<image>:<json of the policy's fields>".  The
\* JSON text starts with the only unescaped "{" followed by a quote, so the
\* string determines the image and every field of the policy; the digest is
\* taken as collision-free.
_get_cache_key(image, pol) == [image |-> image, policy |-> pol]

\* key in self.cache: present and not expired
cache_contains(c, key, time) ==
    \E i \in 1..Len(c) : c[i].key = key /\ time < c[i].expires

CacheIndex(c, key) == CHOOSE i \in 1..Len(c) : c[i].key = key

RemoveAt(c, i) == SubSeq(c, 1, i - 1) \o SubSeq(c, i + 1, Len(c))

\* self.cache[key] of a key that is present and not expired: the value; the
\* entry becomes the most recently used
cache_getitem(c, key) == c[CacheIndex(c, key)].value

cache_touch(c, key) ==
    LET i == CacheIndex(c, key) IN RemoveAt(c, i) \o <<c[i]>>

\* TTLCache.expire: drop every entry that is no longer fresh
RECURSIVE cache_expire(_, _)
cache_expire(c, time) ==
    IF c = <<>> THEN <<>>
    ELSE IF time < c[1].expires
         THEN <<c[1]>> \o cache_expire(Tail(c), time)
         ELSE cache_expire(Tail(c), time)

\* self.cache[key] = value: expire, evict the least recently used entries
\* while the cache is full, store, make the entry the most recently used one
\* with a fresh expiry.  An entry also tells when it was stored.
\* a cache that never evicts
cache_evict_never(c) == c

RECURSIVE cache_evict(_)
cache_evict(c) == IF Len(c) + 1 > maxsize THEN cache_evict(Tail(c)) ELSE c

cache_setitem(c, key, value, time) ==
    LET live  == cache_expire(c, time)
        entry == [key |-> key, value |-> value, expires |-> time + ttl,
                  stored |-> time]
    IN  IF \E i \in 1..Len(live) : live[i].key = key
        THEN RemoveAt(live, CacheIndex(live, key)) \o <<entry>>
        ELSE cache_evict(live) \o <<entry>>

---------------------------------------------------------------------------
(* image_attestation.py: the verifier *)

\* a message: its constant text, and the violations a policy-violation
\* message lists
Msg(text) == [text |-> text, violations |-> {}]

\* AttestationResult(status, image, message, signature_format, signer,
\* certificate_chain)
AttestationResult(status, image, message, format, signer, chain) ==
    [status            |-> status,
     image             |-> image,
     message           |-> message,
     signature_format  |-> format,
     signer            |-> signer,
     certificate_chain |-> chain]

\* What running the cosign subprocess can give.  run: "rc0" exit status 0
\* with a non-empty JSON document, "rc0_empty" exit status 0 with an empty
\* JSON document ([], {}, null), "rc0_badjson" exit status 0 with text that
\* is not JSON, "no_signatures" a non-zero status with "no matching
\* signatures" on stderr, "rc1" any other non-zero status, "timeout"
\* subprocess.TimeoutExpired, "not_found" FileNotFoundError, "oserror" any
\* other exception.  subject: optional.Subject of the first signature.
\* bundle: whether optional.Bundle.Payload is there.
CosignRun(run, subject, bundle) ==
    [run |-> run, subject |-> subject, bundle |-> bundle]

\* a verifier that lets an image pass when the tool is not there
_verify_cosign_signature_skip(image, out) ==
    CASE out.run = "rc0" ->
           Some(AttestationResult("VERIFIED", image, Msg("cosign_verified"),
                                  Some("COSIGN"), out.subject,
                                  IF out.bundle THEN Some(<<>>) ELSE None))
      [] out.run = "rc0_empty" -> None
      [] out.run = "rc0_badjson" ->
           Some(AttestationResult("ERROR", image, Msg("cosign_parse_failed"),
                                  None, None, None))
      [] out.run = "no_signatures" ->
           Some(AttestationResult("NOT_SIGNED", image, Msg("cosign_no_signatures"),
                                  None, None, None))
      [] out.run = "rc1" ->
           Some(AttestationResult("FAILED", image, Msg("cosign_failed"),
                                  None, None, None))
      [] out.run = "timeout" ->
           Some(AttestationResult("ERROR", image, Msg("cosign_timed_out"),
                                  None, None, None))
      [] out.run = "not_found" ->
           Some(AttestationResult("VERIFIED", image, Msg("cosign_not_available"),
                                  Some("COSIGN"), None, None))
      [] out.run = "oserror" ->
           Some(AttestationResult("ERROR", image, Msg("cosign_error"),
                                  None, None, None))

\* _verify_cosign_signature: an Optional result, None when the function falls
\* off its end without a return statement
_verify_cosign_signature(image, out) ==
    CASE out.run = "rc0" ->
           Some(AttestationResult("VERIFIED", image, Msg("cosign_verified"),
                                  Some("COSIGN"), out.subject,
                                  IF out.bundle THEN Some(<<>>) ELSE None))
      [] out.run = "rc0_empty" -> None
      [] out.run = "rc0_badjson" ->
           Some(AttestationResult("ERROR", image, Msg("cosign_parse_failed"),
                                  None, None, None))
      [] out.run = "no_signatures" ->
           Some(AttestationResult("NOT_SIGNED", image, Msg("cosign_no_signatures"),
                                  None, None, None))
      [] out.run = "rc1" ->
           Some(AttestationResult("FAILED", image, Msg("cosign_failed"),
                                  None, None, None))
      [] out.run = "timeout" ->
           Some(AttestationResult("ERROR", image, Msg("cosign_timed_out"),
                                  None, None, None))
      [] out.run = "not_found" ->
           Some(AttestationResult("NOT_SIGNED", image, Msg("cosign_not_available"),
                                  None, None, None))
      [] out.run = "oserror" ->
           Some(AttestationResult("ERROR", image, Msg("cosign_error"),
                                  None, None, None))

_verify_notary_signature(image) ==
    AttestationResult("NOT_SIGNED", image, Msg("notary_not_implemented"),
                      None, None, None)

_extract_registry(image) ==
    IF ~In("/", image) THEN DockerHub
    ELSE LET parts == split(image, "/")
         IN  IF In(".", parts[1]) \/ In(":", parts[1]) THEN parts[1]
             ELSE DockerHub

\* policy checks that refuse a result without a signer where signers are
\* listed
PolicyViolations_strict(pol, result) ==
    {v \in {"signer", "registry", "transparency_log"} :
        \/ /\ v = "signer"
           /\ Truthy(pol.allowed_signers)
           /\ \/ ~TruthyStr(result.signer)
              \/ ~In(result.signer[1], pol.allowed_signers[1])
        \/ /\ v = "registry"
           /\ Truthy(pol.allowed_registries)
           /\ ~In(_extract_registry(result.image), pol.allowed_registries[1])
        \/ /\ v = "transparency_log"
           /\ pol.require_transparency_log
           /\ result.signature_format # Some("COSIGN")}

\* the policy violations found for a verified result, as a set of texts
PolicyViolations(pol, result) ==
    {v \in {"signer", "registry", "transparency_log"} :
        \/ /\ v = "signer"
           /\ Truthy(pol.allowed_signers) /\ TruthyStr(result.signer)
           /\ ~In(result.signer[1], pol.allowed_signers[1])
        \/ /\ v = "registry"
           /\ Truthy(pol.allowed_registries)
           /\ ~In(_extract_registry(result.image), pol.allowed_registries[1])
        \/ /\ v = "transparency_log"
           /\ pol.require_transparency_log
           /\ result.signature_format # Some("COSIGN")}

_apply_policy_checks(pol, result) ==
    IF result.status # "VERIFIED" THEN result
    ELSE IF PolicyViolations(pol, result) # {}
         THEN AttestationResult("POLICY_VIOLATION", result.image,
                                [text       |-> "policy_violations",
                                 violations |-> PolicyViolations(pol, result)],
                                result.signature_format, result.signer, None)
         ELSE result

\* the try block of ImageAttestationVerifier.verify_image_attestation after
\* a cache miss: None (as an Optional) when it raises before the result is
\* stored, otherwise the result that is stored and returned
VerifyUncached(pol, image, out) ==
    LET first == _verify_cosign_signature(image, out)
    IN  IF first = None THEN None
        ELSE LET second == IF first[1].status = "NOT_SIGNED"
                           THEN _verify_notary_signature(image)
                           ELSE first[1]
             IN  Some(_apply_policy_checks(pol, second))

\* the result of the except branch
VerificationError(image) ==
    AttestationResult("ERROR", image, Msg("verification_error"), None, None, None)

\* ImageAttestationVerifier.verify_image_attestation run without
\* interruption, under the verifier's policy pol: what it returns, the cache
\* it leaves, and whether it ran the external tool
verify_image_attestation(pol, c, time, image, out) ==
    LET key == _get_cache_key(image, pol)
    IN  IF cache_contains(c, key, time)
        THEN [result  |-> cache_getitem(c, key),
              cache   |-> cache_touch(c, key),
              key     |-> key,
              invoked |-> FALSE]
        ELSE LET r == VerifyUncached(pol, image, out)
             IN  IF r = None
                 THEN [result  |-> VerificationError(image),
                       cache   |-> c,
                       key     |-> key,
                       invoked |-> TRUE]
                 ELSE [result  |-> r[1],
                       cache   |-> cache_setitem(c, key, r[1], time),
                       key     |-> key,
                       invoked |-> TRUE]

---------------------------------------------------------------------------
(* webhook.py: the decision for one image *)

\* a webhook that lets an image pass when its verification ended in an error
Decision_error_allows(result) ==
    CASE result.status = "VERIFIED" ->
           [is_allowed |-> TRUE,
            message    |-> IF TruthyStr(result.signer)
                           THEN "verified_signed_by" ELSE "verified"]
      [] result.status = "NOT_SIGNED" ->
           [is_allowed |-> FALSE, message |-> "rejected_no_signatures"]
      [] result.status = "FAILED" ->
           [is_allowed |-> FALSE, message |-> "rejected_failed"]
      [] result.status = "POLICY_VIOLATION" ->
           [is_allowed |-> FALSE, message |-> "rejected_policy_violation"]
      [] OTHER ->
           [is_allowed |-> TRUE, message |-> "rejected_verification_error"]

\* the (is_allowed, message) pair returned for a verification result
Decision(result) ==
    CASE result.status = "VERIFIED" ->
           [is_allowed |-> TRUE,
            message    |-> IF TruthyStr(result.signer)
                           THEN "verified_signed_by" ELSE "verified"]
      [] result.status = "NOT_SIGNED" ->
           [is_allowed |-> FALSE, message |-> "rejected_no_signatures"]
      [] result.status = "FAILED" ->
           [is_allowed |-> FALSE, message |-> "rejected_failed"]
      [] result.status = "POLICY_VIOLATION" ->
           [is_allowed |-> FALSE, message |-> "rejected_policy_violation"]
      [] OTHER ->
           [is_allowed |-> FALSE, message |-> "rejected_verification_error"]

\* a webhook that verifies first and looks at require_signature afterwards
\* a controller that skips the verifier for exempt namespaces and images
\* only, and verifies under every other policy
VerifyImage_exempt_only(pc, pol, c, time, namespace, image, out) ==
    LET eff == get_policy_for_request(pc, namespace, image)
    IN  IF \/ In(namespace, pc.global_policy.exempt_namespaces)
           \/ _is_image_exempt(pc, image)
        THEN [outcome |-> [image      |-> image,
                           is_allowed |-> TRUE,
                           message    |-> "allowed_not_required",
                           status     |-> "EXEMPT",
                           effective  |-> eff,
                           key        |-> None,
                           invoked    |-> FALSE],
              result  |-> None,
              cache   |-> c,
              policy  |-> pol]
        ELSE LET v == verify_image_attestation(eff, c, time, image, out)
                 d == Decision(v.result)
             IN  [outcome |-> [image      |-> image,
                               is_allowed |-> d.is_allowed,
                               message    |-> d.message,
                               status     |-> v.result.status,
                               effective  |-> eff,
                               key        |-> Some(v.key),
                               invoked    |-> v.invoked],
                  result  |-> Some(v.result),
                  cache   |-> v.cache,
                  policy  |-> eff]

VerifyImage_verify_first(pc, pol, c, time, namespace, image, out) ==
    LET eff == get_policy_for_request(pc, namespace, image)
        v   == verify_image_attestation(eff, c, time, image, out)
        d   == Decision(v.result)
    IN  [outcome |-> [image      |-> image,
                      is_allowed |-> IF eff.require_signature
                                     THEN d.is_allowed ELSE TRUE,
                      message    |-> IF eff.require_signature
                                     THEN d.message ELSE "allowed_not_required",
                      status     |-> IF eff.require_signature
                                     THEN v.result.status ELSE "EXEMPT",
                      effective  |-> eff,
                      key        |-> Some(v.key),
                      invoked    |-> v.invoked],
         result  |-> Some(v.result),
         cache   |-> v.cache,
         policy  |-> eff]

\* RealAdmissionController.verify_image_attestation run without
\* interruption.  The record holds the returned pair, and for the claims the
\* effective policy, the status the image ended in ("EXEMPT" when no
\* signature is required), the cache key used and whether the external tool
\* ran; result is the verifier's result, cache and policy are the verifier's
\* cache and policy afterwards.
VerifyImage(pc, pol, c, time, namespace, image, out) ==
    LET eff == get_policy_for_request(pc, namespace, image)
    IN  IF ~eff.require_signature
        THEN [outcome |-> [image      |-> image,
                           is_allowed |-> TRUE,
                           message    |-> "allowed_not_required",
                           status     |-> "EXEMPT",
                           effective  |-> eff,
                           key        |-> None,
                           invoked    |-> FALSE],
              result  |-> None,
              cache   |-> c,
              policy  |-> pol]
        ELSE LET v == verify_image_attestation(eff, c, time, image, out)
                 d == Decision(v.result)
             IN  [outcome |-> [image      |-> image,
                               is_allowed |-> d.is_allowed,
                               message    |-> d.message,
                               status     |-> v.result.status,
                               effective  |-> eff,
                               key        |-> Some(v.key),
                               invoked    |-> v.invoked],
                  result  |-> Some(v.result),
                  cache   |-> v.cache,
                  policy  |-> eff]

---------------------------------------------------------------------------
(* The inputs: image references, patterns, policy files *)

ImgN1 == <<"n", ":", "1">>
ImgR1 == <<"r", ":", "1">>
ImgP1 == <<"p", ":", "1">>
ImgL  == <<"l", ".", "i", "/", "n">>

PatAll   == <<"*">>
PatN     == <<"n", ":", "*">>
PatP     == <<"p", ":", "*">>
PatTag1  == <<"*", ":", "1">>
PatMulti == <<"*", ":", "*">>

LIo      == <<"l", ".", "i">>

\* a 'global' mapping, a 'namespaces' entry and an 'images' entry with no key.
\* In the files below an image entry's description is its position in the
\* file, so that the declaration order can be read off the loaded store.
GlobalDict ==
    [default_require_signature  |-> None,
     default_allowed_registries |-> None,
     default_allowed_signers    |-> None,
     require_transparency_log   |-> None,
     require_certificate_chain  |-> None,
     min_slsa_level             |-> None,
     require_provenance         |-> None,
     exempt_namespaces          |-> None,
     exempt_images              |-> None,
     emergency_bypass           |-> None,
     emergency_bypass_token     |-> None]

NamespaceDict ==
    [namespace                |-> None,
     require_signature        |-> None,
     allowed_signers          |-> None,
     allowed_registries       |-> None,
     require_transparency_log |-> None,
     min_slsa_level           |-> None,
     require_provenance       |-> None]

ImageDict ==
    [image_pattern     |-> None,
     require_signature |-> None,
     allowed_signers   |-> None,
     priority          |-> None,
     description       |-> None]

ConfigDict ==
    [global |-> None, namespaces |-> None, images |-> None,
     version |-> None, last_updated |-> None]

FileMissing   == [kind |-> "missing", data |-> ConfigDict]
FileMalformed == [kind |-> "malformed", data |-> ConfigDict]

\* all three sections; an exempt namespace and an exempt image pattern that
\* also have namespace and image policies; image policies declared out of
\* priority order
FileA ==
    [kind |-> "data",
     data |-> [ConfigDict EXCEPT
        !.version = Some("2.0"),
        !.global = Some([GlobalDict EXCEPT
            !.default_allowed_signers    = Some(<<"s1">>),
            !.default_allowed_registries = Some(<<DockerHub>>),
            !.require_certificate_chain  = Some(TRUE),
            !.min_slsa_level             = Some(1),
            !.exempt_namespaces          = Some(<<"kube-system">>),
            !.exempt_images              = Some(<<PatP>>)]),
        !.namespaces = Some(<<
            [NamespaceDict EXCEPT
                !.namespace                = Some("prod"),
                !.allowed_signers          = Some(<<"s2">>),
                !.require_transparency_log = Some(FALSE),
                !.min_slsa_level           = Some(3),
                !.require_provenance       = Some(TRUE)],
            [NamespaceDict EXCEPT
                !.namespace         = Some("dev"),
                !.require_signature = Some(FALSE),
                !.min_slsa_level    = Some(0)],
            [NamespaceDict EXCEPT
                !.namespace         = Some("kube-system"),
                !.require_signature = Some(TRUE),
                !.allowed_signers   = Some(<<"s2">>)] >>),
        !.images = Some(<<
            [ImageDict EXCEPT
                !.description       = Some(1),
                !.image_pattern     = Some(ImgN1),
                !.require_signature = Some(FALSE),
                !.allowed_signers   = Some(<<"s3">>),
                !.priority          = Some(5)],
            [ImageDict EXCEPT
                !.description       = Some(2),
                !.image_pattern     = Some(PatN),
                !.require_signature = Some(TRUE),
                !.priority          = Some(10)],
            [ImageDict EXCEPT
                !.description       = Some(3),
                !.image_pattern     = Some(PatAll),
                !.allowed_signers   = Some(<<"s3">>),
                !.priority          = Some(5)],
            [ImageDict EXCEPT
                !.description       = Some(4),
                !.image_pattern     = Some(PatP),
                !.require_signature = Some(TRUE),
                !.priority          = Some(20)] >>)]]

\* only an 'images' section, with entries of equal priority
FileB ==
    [kind |-> "data",
     data |-> [ConfigDict EXCEPT
        !.images = Some(<<
            [ImageDict EXCEPT
                !.description       = Some(1),
                !.image_pattern     = Some(PatTag1),
                !.require_signature = Some(FALSE)],
            [ImageDict EXCEPT
                !.description       = Some(2),
                !.image_pattern     = Some(PatN),
                !.allowed_signers   = Some(<<"s1">>),
                !.priority          = Some(0)],
            [ImageDict EXCEPT
                !.description       = Some(3),
                !.image_pattern     = Some(ImgR1),
                !.allowed_signers   = Some(<<"s2">>),
                !.priority          = Some(7)],
            [ImageDict EXCEPT
                !.description       = Some(4),
                !.image_pattern     = Some(PatMulti),
                !.require_signature = Some(FALSE),
                !.priority          = Some(7)] >>)]]

\* 'global' and 'namespaces' only; the global default requires no signature
FileC ==
    [kind |-> "data",
     data |-> [ConfigDict EXCEPT
        !.global = Some([GlobalDict EXCEPT
            !.default_require_signature = Some(FALSE),
            !.require_transparency_log  = Some(FALSE),
            !.require_provenance        = Some(TRUE),
            !.exempt_namespaces         = Some(<<"dev">>)]),
        !.namespaces = Some(<<
            [NamespaceDict EXCEPT
                !.namespace          = Some("prod"),
                !.allowed_registries = Some(<<LIo>>)] >>)]]

\* namespace and image entries that set their lists to the empty list and
\* their level to zero, under a global policy that sets all three
FileE ==
    [kind |-> "data",
     data |-> [ConfigDict EXCEPT
        !.global = Some([GlobalDict EXCEPT
            !.default_allowed_signers    = Some(<<"s1">>),
            !.default_allowed_registries = Some(<<DockerHub>>),
            !.min_slsa_level             = Some(2)]),
        !.namespaces = Some(<<
            [NamespaceDict EXCEPT
                !.namespace          = Some("prod"),
                !.allowed_signers    = Some(<<>>),
                !.allowed_registries = Some(<<>>),
                !.min_slsa_level     = Some(0)],
            [NamespaceDict EXCEPT
                !.namespace          = Some("dev"),
                !.require_signature  = Some(FALSE),
                !.allowed_signers    = Some(<<"s2">>),
                !.allowed_registries = Some(<<LIo>>),
                !.min_slsa_level     = Some(3)] >>),
        !.images = Some(<<
            [ImageDict EXCEPT
                !.description       = Some(1),
                !.image_pattern     = Some(ImgR1),
                !.allowed_signers   = Some(<<>>),
                !.priority          = Some(5)],
            [ImageDict EXCEPT
                !.description       = Some(2),
                !.image_pattern     = Some(ImgL),
                !.require_signature = Some(FALSE),
                !.allowed_signers   = Some(<<"s3">>)] >>)]]

\* an 'images' entry without image_pattern: _parse_config raises
FileBad ==
    [kind |-> "data",
     data |-> [ConfigDict EXCEPT
        !.global = Some([GlobalDict EXCEPT !.emergency_bypass = Some(TRUE)]),
        !.images = Some(<<
            [ImageDict EXCEPT
                !.description       = Some(1),
                !.image_pattern = Some(PatAll),
                !.priority      = Some(1)],
            [ImageDict EXCEPT
                !.description       = Some(2),
                !.priority = Some(9)] >>)]]

\* a 'namespaces' entry without namespace, after a 'global' section:
\* _parse_config raises when the global policy is already assigned
FileBadNs ==
    [kind |-> "data",
     data |-> [ConfigDict EXCEPT
        !.global = Some([GlobalDict EXCEPT
            !.default_require_signature = Some(FALSE),
            !.exempt_namespaces         = Some(<<"prod">>)]),
        !.namespaces = Some(<<
            [NamespaceDict EXCEPT
                !.namespace         = Some("dev"),
                !.require_signature = Some(FALSE)],
            [NamespaceDict EXCEPT
                !.require_signature = Some(FALSE)] >>)]]

\* emergency bypass enabled with a token; an exempt namespace and an exempt
\* image pattern; namespace policies
FileX ==
    [kind |-> "data",
     data |-> [ConfigDict EXCEPT
        !.global = Some([GlobalDict EXCEPT
            !.default_allowed_signers = Some(<<"s1">>),
            !.exempt_namespaces       = Some(<<"kube-system">>),
            !.exempt_images           = Some(<<PatP>>),
            !.emergency_bypass        = Some(TRUE),
            !.emergency_bypass_token  = Some("T")]),
        !.namespaces = Some(<<
            [NamespaceDict EXCEPT
                !.namespace       = Some("prod"),
                !.allowed_signers = Some(<<"s2">>)],
            [NamespaceDict EXCEPT
                !.namespace         = Some("dev"),
                !.require_signature = Some(FALSE)] >>)]]

\* emergency bypass enabled with an empty token
FileY ==
    [kind |-> "data",
     data |-> [ConfigDict EXCEPT
        !.global = Some([GlobalDict EXCEPT
            !.emergency_bypass       = Some(TRUE),
            !.emergency_bypass_token = Some("")])]]

\* emergency bypass disabled, a token configured
FileZ ==
    [kind |-> "data",
     data |-> [ConfigDict EXCEPT
        !.global = Some([GlobalDict EXCEPT
            !.emergency_bypass_token  = Some("T")])]]

\* emergency bypass enabled, no token
FileW ==
    [kind |-> "data",
     data |-> [ConfigDict EXCEPT
        !.global = Some([GlobalDict EXCEPT
            !.emergency_bypass = Some(TRUE)]),
        !.namespaces = Some(<<>>)]]

PolicyFiles == {FileMissing, FileMalformed, FileA, FileB, FileC, FileE, FileBad}
PolicyNamespaces == {"kube-system", "prod", "dev", "default"}
PolicyImages == {ImgN1, ImgR1, ImgP1, ImgL}

---------------------------------------------------------------------------
(* State *)

\* create_default_policy(): the verifier's policy until a request sets it
create_default_policy ==
    AttestationPolicy(
        EnvTrue(Env.ATTESTATION_REQUIRE_SIGNATURE, "true"),
        Env.ATTESTATION_ALLOWED_SIGNERS,
        EnvTrue(Env.ATTESTATION_REQUIRE_TRANSPARENCY_LOG, "true"),
        EnvTrue(Env.ATTESTATION_REQUIRE_CERT_CHAIN, "false"),
        Env.ATTESTATION_ALLOWED_REGISTRIES,
        Some(Get(Env.ATTESTATION_MIN_SLSA_LEVEL, 0)),
        EnvTrue(Env.ATTESTATION_REQUIRE_PROVENANCE, "false"))

NoResolution ==
    [called |-> FALSE, namespace |-> "", image |-> <<>>,
     store |-> PolicyConfiguration, result |-> ExemptPolicy]

Threads == {"t1", "t2"}

NoOutcome ==
    [image |-> <<>>, is_allowed |-> FALSE, message |-> "", status |-> "",
     effective |-> ExemptPolicy, key |-> None, invoked |-> FALSE]

\* a thread serving POST /verify-image: where it is, its request, the policy
\* it resolved, the cache key it computed, the entry a hit gave it, the
\* policy its checks read, and what it returns
ThIdle ==
    [pc |-> "idle", namespace |-> "", image |-> <<>>, eff |-> None,
     key |-> None, hit |-> None, checked |-> None, outcome |-> NoOutcome]

NoResponse == [allowed |-> FALSE, text |-> "", failed |-> <<>>, lines |-> <<>>]

ReqIdle ==
    [pc |-> "idle", namespace |-> "", token |-> None,
     pod |-> [containers |-> <<>>, initContainers |-> <<>>], images |-> <<>>,
     i |-> 0, outcomes |-> <<>>, failed |-> <<>>, response |-> NoResponse,
     fault |-> "none"]

\* The last load when none is in progress: the file it read, and how many
\* loads in a row have read that same content (counted up to MaxSame).  A
\* load in progress also holds the store as it was when the load began.
MaxSame == 2

Loaded(file, count) ==
    [pc |-> "idle", file |-> file, before |-> PolicyConfiguration,
     count |-> count]

\* the count of a load that reads this file now
NextCount(file) ==
    IF loading.file = file
    THEN (IF loading.count < MaxSame THEN loading.count + 1 ELSE MaxSame)
    ELSE 1

\* no resolution in progress; a resolution in progress holds its request, the
\* policy built so far, and the complete stores of its time: the store
\* before, and the store after, every load in progress while it runs
NoResolving ==
    [pc |-> "idle", namespace |-> "", image |-> <<>>, policy |-> ExemptPolicy,
     complete |-> {}]

NoMatch == [called |-> FALSE, text |-> <<>>, pattern |-> <<>>, result |-> FALSE]

NoCall ==
    [called |-> FALSE, turn |-> 0, namespace |-> "", at |-> 0,
     found |-> <<>>, outcome |-> NoOutcome, result |-> None]

---------------------------------------------------------------------------
(* Operations of the policy store *)

\* the operator edits the policy file
WriteConfig(f) ==
    /\ config_file # f
    /\ config_file' = f
    /\ UNCHANGED <<checking, matching, loading, resolving, policy_config, resolved, policy, cache, now, req,
                   last_call, th>>

\* PolicyManager.reload_policy (POST /policy-reload)
reload_policy ==
    /\ policy_config' = _load_policy(policy_config, config_file)
    /\ loading' = Loaded(config_file, NextCount(config_file))
    /\ UNCHANGED <<checking, matching, resolving, config_file, resolved, policy, cache, now, req,
                   last_call, th>>

\* the operator edits the policy file and has it reloaded
Reconfigure(f) ==
    /\ config_file # f
    /\ config_file' = f
    /\ policy_config' = _load_policy(policy_config, f)
    /\ loading' = Loaded(f, NextCount(f))
    /\ UNCHANGED <<checking, matching, resolving, resolved, policy, cache, now, req, last_call, th>>

\* a call of PolicyManager.get_policy_for_request
Resolve(namespace, image) ==
    /\ resolved' = [called    |-> TRUE,
                    namespace |-> namespace,
                    image     |-> image,
                    store     |-> policy_config,
                    result    |-> get_policy_for_request(policy_config,
                                                         namespace, image)]
    /\ UNCHANGED <<checking, matching, loading, resolving, config_file, policy_config, policy, cache, now, req,
                   last_call, th>>

\* no call of _apply_policy_checks yet
NoCheck ==
    [called   |-> FALSE,
     policy   |-> create_default_policy,
     result   |-> AttestationResult("ERROR", <<>>, Msg(""), None, None, None),
     final    |-> AttestationResult("ERROR", <<>>, Msg(""), None, None, None),
     decision |-> [is_allowed |-> FALSE, message |-> ""]]

\* image_attestation.py 132-134 and webhook.py 56-72: the policy checks are
\* applied to a result of the verification methods (_apply_policy_checks
\* itself returns every result that is not VERIFIED as it is), and the
\* webhook decides on what comes out
apply_policy_checks ==
    /\ ~checking.called
    /\ LET final == _apply_policy_checks(checking.policy, checking.result)
       IN  checking' = [checking EXCEPT !.called   = TRUE,
                                        !.final    = final,
                                        !.decision = Decision(final)]
    /\ UNCHANGED <<config_file, policy_config, resolved, policy, cache, now,
                   req, last_call, th, loading, resolving, matching>>

\* a call of PolicyManager._match_pattern
match_pattern ==
    /\ ~matching.called
    /\ matching' = [matching EXCEPT
                        !.called = TRUE,
                        !.result = _match_pattern(matching.text,
                                                  matching.pattern)]
    /\ UNCHANGED <<checking, config_file, policy_config, resolved, policy, cache, now,
                   req, last_call, th, loading, resolving>>

---------------------------------------------------------------------------
(* The policy store with a reload and a resolution running at the same time:
   the steps of _load_policy / _parse_config and of get_policy_for_request
   between which the other can run.  _parse_config assigns the sections of
   self.policy_config one after the other; _load_default_policy assigns a
   whole new self.policy_config. *)

\* a load begins that will end with this store: a resolution in progress
\* notes it
NoteComplete(store) ==
    resolving' = IF resolving.pc = "idle" THEN resolving
                 ELSE [resolving EXCEPT !.complete = @ \cup {store}]

\* _load_policy: the file is looked for, read and parsed; a missing file and
\* one that does not parse end in _load_default_policy
load_begin ==
    /\ loading.pc = "idle"
    /\ IF config_file.kind \in {"missing", "malformed"}
       THEN /\ policy_config' = _load_default_policy
            /\ loading' = Loaded(config_file, NextCount(config_file))
       ELSE /\ loading' = [pc     |-> "global",
                           file   |-> config_file,
                           before |-> policy_config,
                           count  |-> NextCount(config_file)]
            /\ UNCHANGED policy_config
    /\ NoteComplete(_load_policy(policy_config, config_file))
    /\ UNCHANGED <<checking, matching, config_file, resolved, policy, cache, now, req, last_call,
                   th>>

\* _parse_config: self.policy_config.global_policy = GlobalPolicy(...)
load_global ==
    /\ loading.pc = "global"
    /\ policy_config' =
           IF loading.file.data.global # None
           THEN [policy_config EXCEPT
                    !.global_policy = ParseGlobal(loading.file.data.global[1])]
           ELSE policy_config
    /\ loading' = [loading EXCEPT !.pc = "namespaces"]
    /\ UNCHANGED <<checking, matching, config_file, resolved, policy, cache, now, req, last_call,
                   th, resolving>>

\* a load that ends where the KeyError of a namespace entry found it
load_namespaces_keep ==
    /\ loading.pc = "namespaces"
    /\ LET data == loading.file.data
       IN  IF data.namespaces = None
           THEN /\ loading' = [loading EXCEPT !.pc = "images"]
                /\ UNCHANGED policy_config
           ELSE IF \E i \in 1..Len(data.namespaces[1]) :
                       data.namespaces[1][i].namespace = None
           THEN /\ UNCHANGED policy_config
                /\ loading' = Loaded(loading.file, loading.count)
           ELSE /\ policy_config' =
                       [policy_config EXCEPT !.namespace_policies =
                           [i \in 1..Len(data.namespaces[1]) |->
                                ParseNamespace(data.namespaces[1][i])]]
                /\ loading' = [loading EXCEPT !.pc = "images"]
    /\ UNCHANGED <<checking, matching, config_file, resolved, policy, cache, now, req, last_call,
                   th, resolving>>

\* _parse_config: self.policy_config.namespace_policies = namespace_policies,
\* or the KeyError of an entry without 'namespace', which ends the load in
\* _load_default_policy
load_namespaces ==
    /\ loading.pc = "namespaces"
    /\ LET data == loading.file.data
       IN  IF data.namespaces = None
           THEN /\ loading' = [loading EXCEPT !.pc = "images"]
                /\ UNCHANGED policy_config
           ELSE IF \E i \in 1..Len(data.namespaces[1]) :
                       data.namespaces[1][i].namespace = None
           THEN /\ policy_config' = _load_default_policy
                /\ loading' = Loaded(loading.file, loading.count)
           ELSE /\ policy_config' =
                       [policy_config EXCEPT !.namespace_policies =
                           [i \in 1..Len(data.namespaces[1]) |->
                                ParseNamespace(data.namespaces[1][i])]]
                /\ loading' = [loading EXCEPT !.pc = "images"]
    /\ UNCHANGED <<checking, matching, config_file, resolved, policy, cache, now, req, last_call,
                   th, resolving>>

\* _parse_config: self.policy_config.image_policies = image_policies (sorted),
\* or the KeyError of an entry without 'image_pattern'
load_images ==
    /\ loading.pc = "images"
    /\ LET data == loading.file.data
       IN  IF data.images = None
           THEN /\ loading' = [loading EXCEPT !.pc = "version"]
                /\ UNCHANGED policy_config
           ELSE IF \E i \in 1..Len(data.images[1]) :
                       data.images[1][i].image_pattern = None
           THEN /\ policy_config' = _load_default_policy
                /\ loading' = Loaded(loading.file, loading.count)
           ELSE /\ policy_config' =
                       [policy_config EXCEPT !.image_policies =
                           SortByPriority(
                               [i \in 1..Len(data.images[1]) |->
                                    ParseImage(data.images[1][i])])]
                /\ loading' = [loading EXCEPT !.pc = "version"]
    /\ UNCHANGED <<checking, matching, config_file, resolved, policy, cache, now, req, last_call,
                   th, resolving>>

\* _parse_config: version and last_updated; the load returns
load_version ==
    /\ loading.pc = "version"
    /\ policy_config' = [policy_config EXCEPT
                             !.version      = Get(loading.file.data.version, "1.0"),
                             !.last_updated = loading.file.data.last_updated]
    /\ loading' = Loaded(loading.file, loading.count)
    /\ UNCHANGED <<checking, matching, config_file, resolved, policy, cache, now, req, last_call,
                   th, resolving>>

\* get_policy_for_request: the exemptions are looked up in, and the base
\* policy is built from, self.policy_config.global_policy (its reads are
\* taken together)
resolve_global(namespace, image) ==
    /\ resolving.pc = "idle"
    /\ LET r == [NoResolving EXCEPT
                    !.namespace = namespace,
                    !.image     = image,
                    !.complete  =
                        IF loading.pc = "idle" THEN {policy_config}
                        ELSE {loading.before,
                              _load_policy(loading.before,
                                           loading.file)}]
       IN  resolving' =
             IF \/ In(namespace, policy_config.global_policy.exempt_namespaces)
                \/ _is_image_exempt(policy_config, image)
             THEN [r EXCEPT !.pc = "done", !.policy = ExemptPolicy]
             ELSE [r EXCEPT !.pc = "namespaces",
                            !.policy = GlobalDefaults(policy_config)]
    /\ UNCHANGED <<checking, matching, config_file, policy_config, resolved, policy, cache, now,
                   req, last_call, th, loading>>

\* get_policy_for_request: the namespace policy is looked up and merged
resolve_namespaces ==
    /\ resolving.pc = "namespaces"
    /\ LET ns == _find_namespace_policy(policy_config, resolving.namespace)
       IN  resolving' =
             [resolving EXCEPT
                !.pc = "images",
                !.policy = IF ns # None
                           THEN _merge_namespace_policy(@, ns[1]) ELSE @]
    /\ UNCHANGED <<checking, matching, config_file, policy_config, resolved, policy, cache, now,
                   req, last_call, th, loading>>

\* get_policy_for_request: the image policy is looked up and merged
resolve_images ==
    /\ resolving.pc = "images"
    /\ LET img == _find_image_policy(policy_config, resolving.image)
       IN  resolving' =
             [resolving EXCEPT
                !.pc = "done",
                !.policy = IF img # None
                           THEN _merge_image_policy(@, img[1]) ELSE @]
    /\ UNCHANGED <<checking, matching, config_file, policy_config, resolved, policy, cache, now,
                   req, last_call, th, loading>>

\* get_policy_for_request returns
resolve_return ==
    /\ resolving.pc = "done"
    /\ resolving' = NoResolving
    /\ UNCHANGED <<checking, matching, config_file, policy_config, resolved, policy, cache, now,
                   req, last_call, th, loading>>

---------------------------------------------------------------------------
(* Operations of the admission controller *)

\* the images of a list of containers, each with an Optional image
RECURSIVE ContainerImages(_)
ContainerImages(containers) ==
    IF containers = <<>> THEN <<>>
    ELSE containers[1] \o ContainerImages(Tail(containers))

\* an extraction that puts the init containers first
extract_images_init_first(pod) ==
    ContainerImages(pod.initContainers) \o ContainerImages(pod.containers)

\* extract_images_from_pod: main containers, then init containers
extract_images_from_pod(pod) ==
    ContainerImages(pod.containers) \o ContainerImages(pod.initContainers)

\* create_admission_response: allowed, and the message as its leading text,
\* the failed images it names and its lines, one per image
create_admission_response(allowed, text, failed, lines) ==
    [allowed |-> allowed, text |-> text, failed |-> failed, lines |-> lines]

\* the line of the message for one image
Line(outcome) == [image |-> outcome.image, message |-> outcome.message]

\* a verdict that allows the pod as soon as one image passes
Aggregate_any(outcomes, failed) ==
    LET lines == [k \in 1..Len(outcomes) |-> Line(outcomes[k])]
    IN  IF Len(failed) = Len(outcomes)
        THEN create_admission_response(FALSE, "pod_rejected", failed, lines)
        ELSE create_admission_response(TRUE, "pod_allowed", <<>>, lines)

\* a denial that reports the failed images only
Aggregate_failed_lines(outcomes, failed) ==
    LET lines == [k \in 1..Len(outcomes) |-> Line(outcomes[k])]
    IN  IF failed # <<>>
        THEN create_admission_response(
                 FALSE, "pod_rejected", failed,
                 SelectSeq(lines, LAMBDA l : In(l.image, failed)))
        ELSE create_admission_response(TRUE, "pod_allowed", <<>>, lines)

\* the end of validate_pod: the response for the outcomes of all images
Aggregate(outcomes, failed) ==
    LET lines == [k \in 1..Len(outcomes) |-> Line(outcomes[k])]
    IN  IF failed # <<>>
        THEN create_admission_response(FALSE, "pod_rejected", failed, lines)
        ELSE create_admission_response(TRUE, "pod_allowed", <<>>, lines)

\* a validate_pod that rejects a pod without images
validate_pod_begin_rejects_empty(namespace, pod, bypass_token) ==
    /\ req.pc = "idle"
    /\ LET images == extract_images_from_pod(pod)
           r      == [ReqIdle EXCEPT !.namespace = namespace,
                                     !.token     = bypass_token,
                                     !.pod       = pod]
       IN  req' =
             IF is_emergency_bypass_enabled(policy_config, bypass_token)
             THEN [r EXCEPT !.pc = "done",
                            !.response = create_admission_response(
                                TRUE, "emergency_bypass", <<>>, <<>>)]
             ELSE IF images = <<>>
             THEN [r EXCEPT !.pc = "done",
                            !.response = create_admission_response(
                                FALSE, "no_images", <<>>, <<>>)]
             ELSE [r EXCEPT !.pc = "verify", !.images = images, !.i = 1]
    /\ UNCHANGED <<checking, matching, loading, resolving, config_file, policy_config, resolved, policy, cache, now,
                   last_call, th>>

\* a validate_pod that extracts the images before it looks at the bypass
validate_pod_begin_extract_first(namespace, pod, bypass_token) ==
    /\ req.pc = "idle"
    /\ LET images == extract_images_from_pod(pod)
           r      == [ReqIdle EXCEPT !.namespace = namespace,
                                     !.token     = bypass_token,
                                     !.pod       = pod,
                                     !.images    = images]
       IN  req' =
             IF images = <<>>
             THEN [r EXCEPT !.pc = "done",
                            !.response = create_admission_response(
                                TRUE, "no_images", <<>>, <<>>)]
             ELSE IF is_emergency_bypass_enabled(policy_config, bypass_token)
             THEN [r EXCEPT !.pc = "done",
                            !.response = create_admission_response(
                                TRUE, "emergency_bypass", <<>>, <<>>)]
             ELSE [r EXCEPT !.pc = "verify", !.i = 1]
    /\ UNCHANGED <<checking, matching, loading, resolving, config_file, policy_config, resolved, policy, cache, now,
                   last_call, th>>

\* validate_pod up to the loop over the images
validate_pod_begin(namespace, pod, bypass_token) ==
    /\ req.pc = "idle"
    /\ LET images == extract_images_from_pod(pod)
           r      == [ReqIdle EXCEPT !.namespace = namespace,
                                     !.token     = bypass_token,
                                     !.pod       = pod]
       IN  req' =
             IF is_emergency_bypass_enabled(policy_config, bypass_token)
             THEN [r EXCEPT !.pc = "done",
                            !.response = create_admission_response(
                                TRUE, "emergency_bypass", <<>>, <<>>)]
             ELSE IF images = <<>>
             THEN [r EXCEPT !.pc = "done",
                            !.response = create_admission_response(
                                TRUE, "no_images", <<>>, <<>>)]
             ELSE [r EXCEPT !.pc = "verify", !.images = images, !.i = 1]
    /\ UNCHANGED <<checking, matching, loading, resolving, config_file, policy_config, resolved, policy, cache, now,
                   last_call, th>>

\* one turn of the loop of validate_pod: the next image is verified; after
\* the last image the response is built
validate_pod_image(out) ==
    /\ req.pc = "verify"
    /\ LET image    == req.images[req.i]
           v        == VerifyImage(policy_config, policy, cache, now,
                                   req.namespace, image, out)
           outcomes == Append(req.outcomes, v.outcome)
           failed   == IF v.outcome.is_allowed THEN req.failed
                       ELSE Append(req.failed, image)
       IN  /\ cache' = v.cache
           /\ policy' = v.policy
           /\ req' = IF req.i < Len(req.images)
                     THEN [req EXCEPT !.i = @ + 1,
                                      !.outcomes = outcomes,
                                      !.failed = failed]
                     ELSE [req EXCEPT !.pc = "done",
                                      !.outcomes = outcomes,
                                      !.failed = failed,
                                      !.response = Aggregate(outcomes, failed)]
    /\ UNCHANGED <<checking, matching, loading, resolving, config_file, policy_config, resolved, now, last_call, th>>

\* the response is sent
validate_pod_return ==
    /\ req.pc = "done"
    /\ req' = ReqIdle
    /\ UNCHANGED <<checking, matching, loading, resolving, config_file, policy_config, resolved, policy, cache, now,
                   last_call, th>>

\* a loop that stops at the first image that is not allowed
LoopTurn_abort(r, outcome) ==
    LET outcomes == Append(r.outcomes, outcome)
        failed   == IF outcome.is_allowed THEN r.failed
                    ELSE Append(r.failed, outcome.image)
    IN  IF r.i < Len(r.images) /\ outcome.is_allowed
        THEN [r EXCEPT !.pc = "verify", !.i = @ + 1,
                       !.outcomes = outcomes, !.failed = failed]
        ELSE [r EXCEPT !.pc = "done",
                       !.outcomes = outcomes, !.failed = failed,
                       !.response = Aggregate(outcomes, failed)]

\* the request after one turn of the loop of validate_pod, the pair
\* returned for the image being known: the line and the failure are noted
\* and the loop goes on; after the last image the response is built
LoopTurn(r, outcome) ==
    LET outcomes == Append(r.outcomes, outcome)
        failed   == IF outcome.is_allowed THEN r.failed
                    ELSE Append(r.failed, outcome.image)
    IN  IF r.i < Len(r.images)
        THEN [r EXCEPT !.pc = "verify", !.i = @ + 1,
                       !.outcomes = outcomes, !.failed = failed]
        ELSE [r EXCEPT !.pc = "done",
                       !.outcomes = outcomes, !.failed = failed,
                       !.response = Aggregate(outcomes, failed)]

\* the pair the handler of verify_image_attestation (webhook.py) returns
\* when anything in its try block raises
InternalError(image, eff, key) ==
    [image      |-> image,
     is_allowed |-> FALSE,
     message    |-> "rejected_internal_error",
     status     |-> "ERROR",
     effective  |-> eff,
     key        |-> key,
     invoked    |-> FALSE]

\* one turn of the loop of validate_pod up to the verifier's test
\* "cache_key in self.cache": when the cache holds the key the turn stops
\* before the entry is read, otherwise the image is verified and the turn
\* ends
validate_pod_lookup(out) ==
    /\ req.pc = "verify"
    /\ LET image == req.images[req.i]
           eff   == get_policy_for_request(policy_config, req.namespace, image)
           v     == VerifyImage(policy_config, policy, cache, now,
                                req.namespace, image, out)
       IN  IF /\ eff.require_signature
              /\ cache_contains(cache, _get_cache_key(image, eff), now)
           THEN /\ req' = [req EXCEPT !.pc = "hit"]
                /\ policy' = eff
                /\ cache' = cache
           ELSE /\ req' = LoopTurn(req, v.outcome)
                /\ policy' = v.policy
                /\ cache' = v.cache
    /\ UNCHANGED <<checking, matching, loading, resolving, config_file, policy_config,
                   resolved, now, last_call, th>>

\* "return self.cache[cache_key]" and the rest of the turn: the entry is
\* returned, or, when it is gone by now, the KeyError reaches the handler of
\* verify_image_attestation (webhook.py)
validate_pod_getitem ==
    /\ req.pc = "hit"
    /\ LET image == req.images[req.i]
           key   == _get_cache_key(image, policy)
       IN  IF cache_contains(cache, key, now)
           THEN LET result == cache_getitem(cache, key)
                    d      == Decision(result)
                IN  /\ req' = LoopTurn(req, [image      |-> image,
                                             is_allowed |-> d.is_allowed,
                                             message    |-> d.message,
                                             status     |-> result.status,
                                             effective  |-> policy,
                                             key        |-> Some(key),
                                             invoked    |-> FALSE])
                    /\ cache' = cache_touch(cache, key)
           ELSE /\ req' = LoopTurn(req, InternalError(image, policy, Some(key)))
                /\ cache' = cache
    /\ UNCHANGED <<checking, matching, loading, resolving, config_file, policy_config,
                   resolved, policy, now, last_call, th>>

\* the entries the cache holds for a key, expired or not
EntriesFor(c, key) == SelectSeq(c, LAMBDA e : <<e.key>> = key)

\* verify_image_endpoint (POST /verify-image): one image is verified.
\* last_call is the last such call since the cache was last cleared: its
\* time, the entries the cache held for its key when it started, and what
\* it returned.
verify_image_endpoint(namespace, image, out) ==
    /\ LET v == VerifyImage(policy_config, policy, cache, now,
                            namespace, image, out)
       IN  /\ cache' = v.cache
           /\ policy' = v.policy
           /\ last_call' = [called    |-> TRUE,
                            turn      |-> 1 - last_call.turn,
                            namespace |-> namespace,
                            at        |-> now,
                            found     |-> EntriesFor(cache, v.outcome.key),
                            outcome   |-> v.outcome,
                            result    |-> v.result]
    /\ UNCHANGED <<checking, matching, loading, resolving, config_file, policy_config, resolved, now, req, th>>

\* a clear that leaves the entries in place
clear_cache_keeps_entries ==
    /\ last_call' = NoCall
    /\ UNCHANGED <<checking, matching, loading, resolving, config_file, policy_config, resolved, policy, cache, now,
                   req, th>>

\* ImageAttestationVerifier.clear_cache (POST /clear-cache)
clear_cache ==
    /\ cache' = <<>>
    /\ last_call' = NoCall
    /\ UNCHANGED <<checking, matching, loading, resolving, config_file, policy_config, resolved, policy, now, req, th>>

\* time passes
MaxTime == 3

Tick ==
    /\ now < MaxTime
    /\ now' = now + 1
    /\ UNCHANGED <<checking, matching, loading, resolving, config_file, policy_config, resolved, policy, cache, req,
                   last_call, th>>

---------------------------------------------------------------------------
(* POST /verify-image served by several threads: the steps of
   RealAdmissionController.verify_image_attestation and of
   ImageAttestationVerifier.verify_image_attestation between which another
   thread can run.  The verifier, its policy attribute and its cache are
   shared by all threads. *)

\* the outcome a thread returns for a verifier result
ThreadOutcome(t, result, key, invoked) ==
    LET d == Decision(result)
    IN  [image      |-> th[t].image,
         is_allowed |-> d.is_allowed,
         message    |-> d.message,
         status     |-> result.status,
         effective  |-> th[t].eff[1],
         key        |-> Some(key),
         invoked    |-> invoked]

\* webhook.py: the policy is resolved; when no signature is required the call
\* returns, otherwise the policy is assigned to the verifier
thread_resolve(t, namespace, image) ==
    /\ th[t].pc = "idle"
    /\ LET eff == get_policy_for_request(policy_config, namespace, image)
       IN  IF ~eff.require_signature
           THEN /\ th' = [th EXCEPT ![t] =
                     [ThIdle EXCEPT
                        !.pc = "done", !.namespace = namespace,
                        !.image = image, !.eff = Some(eff),
                        !.outcome = [image      |-> image,
                                     is_allowed |-> TRUE,
                                     message    |-> "allowed_not_required",
                                     status     |-> "EXEMPT",
                                     effective  |-> eff,
                                     key        |-> None,
                                     invoked    |-> FALSE]]]
                /\ policy' = policy
           ELSE /\ th' = [th EXCEPT ![t] =
                     [ThIdle EXCEPT !.pc = "lookup", !.namespace = namespace,
                                    !.image = image, !.eff = Some(eff)]]
                /\ policy' = eff
    /\ UNCHANGED <<checking, matching, loading, resolving, config_file, policy_config, resolved, cache, now, req,
                   last_call>>

\* image_attestation.py: the cache key is computed from the verifier's
\* policy attribute, and the cache is asked whether it holds the key
thread_lookup(t) ==
    /\ th[t].pc = "lookup"
    /\ LET key == _get_cache_key(th[t].image, policy)
       IN  th' = [th EXCEPT ![t].key = Some(key),
                            ![t].pc  = IF cache_contains(cache, key, now)
                                       THEN "hit" ELSE "miss"]
    /\ UNCHANGED <<checking, matching, loading, resolving, config_file, policy_config, resolved, policy, cache, now,
                   req, last_call>>

\* return self.cache[cache_key]: the entry is returned, or, when it is gone
\* by now, the KeyError reaches the handler of the webhook
thread_getitem(t) ==
    /\ th[t].pc = "hit"
    /\ LET key == th[t].key[1]
       IN  IF cache_contains(cache, key, now)
           THEN /\ th' = [th EXCEPT
                     ![t].pc  = "done",
                     ![t].hit = Some(cache[CacheIndex(cache, key)]),
                     ![t].outcome = ThreadOutcome(
                         t, cache_getitem(cache, key), key, FALSE)]
                /\ cache' = cache_touch(cache, key)
           ELSE /\ th' = [th EXCEPT
                     ![t].pc = "done",
                     ![t].outcome =
                         [image      |-> th[t].image,
                          is_allowed |-> FALSE,
                          message    |-> "rejected_internal_error",
                          status     |-> "ERROR",
                          effective  |-> th[t].eff[1],
                          key        |-> Some(key),
                          invoked    |-> FALSE]]
                /\ cache' = cache
    /\ UNCHANGED <<checking, matching, loading, resolving, config_file, policy_config, resolved, policy, now, req,
                   last_call>>

\* the miss: the external tools have run, the policy checks read the
\* verifier's policy attribute (its reads are taken together), and the
\* result is stored under the key computed before
thread_verify(t, out) ==
    /\ th[t].pc = "miss"
    /\ LET key == th[t].key[1]
           r   == VerifyUncached(policy, th[t].image, out)
       IN  IF r = None
           THEN /\ th' = [th EXCEPT
                     ![t].pc = "done",
                     ![t].outcome = ThreadOutcome(
                         t, VerificationError(th[t].image), key, TRUE)]
                /\ cache' = cache
           ELSE /\ th' = [th EXCEPT
                     ![t].pc = "done",
                     ![t].checked = IF r[1].status \in
                                         {"VERIFIED", "POLICY_VIOLATION"}
                                    THEN Some(policy) ELSE None,
                     ![t].outcome = ThreadOutcome(t, r[1], key, TRUE)]
                /\ cache' = cache_setitem(cache, key, r[1], now)
    /\ UNCHANGED <<checking, matching, loading, resolving, config_file, policy_config, resolved, policy, now, req,
                   last_call>>

\* the response is sent
thread_return(t) ==
    /\ th[t].pc = "done"
    /\ th' = [th EXCEPT ![t] = ThIdle]
    /\ UNCHANGED <<checking, matching, loading, resolving, config_file, policy_config, resolved, policy, cache, now,
                   req, last_call>>

---------------------------------------------------------------------------
(* The admission controller, one request at a time *)

Files == {FileMissing, FileX}
Namespaces == {"kube-system", "prod", "default"}
Tokens == {None, Some("T"), Some("wrong")}

Pod(containers, initContainers) ==
    [containers |-> containers, initContainers |-> initContainers]

Pods ==
    {Pod(<<None>>, <<>>),
     Pod(<<Some(ImgN1)>>, <<>>),
     Pod(<<Some(ImgP1)>>, <<>>),
     Pod(<<Some(ImgP1), None>>, <<Some(ImgN1)>>)}

CosignRuns ==
    {CosignRun("rc0", Some("s1"), FALSE),
     CosignRun("rc0_empty", None, FALSE),
     CosignRun("no_signatures", None, FALSE),
     CosignRun("timeout", None, FALSE)}

Init ==
    /\ config_file \in Files
    /\ policy_config = _load_policy(PolicyConfiguration, config_file)
    /\ resolved = NoResolution
    /\ policy = create_default_policy
    /\ cache = <<>>
    /\ now = 0
    /\ req = ReqIdle
    /\ last_call = NoCall
    /\ th = [t \in Threads |-> ThIdle]
    /\ loading = Loaded(config_file, 1)
    /\ matching = NoMatch
    /\ checking = NoCheck
    /\ resolving = NoResolving

Next ==
    \/ \E f \in Files : Reconfigure(f)
    \/ \E n \in Namespaces, p \in Pods, t \in Tokens :
           validate_pod_begin(n, p, t)
    \/ \E out \in CosignRuns : validate_pod_image(out)
    \/ validate_pod_return
    \/ clear_cache

Spec == Init /\ [][Next]_vars

---------------------------------------------------------------------------
(* Emergency bypass: every way of configuring it, every kind of token *)

BypassFiles == {FileMissing, FileX, FileY, FileZ, FileW}
BypassTokens == {None, Some("T"), Some("wrong"), Some("")}
BypassPods == {Pod(<<Some(ImgN1)>>, <<>>)}
BypassRuns == {CosignRun("rc0", Some("s1"), FALSE),
               CosignRun("no_signatures", None, FALSE)}

InitBypass ==
    /\ config_file \in BypassFiles
    /\ policy_config = _load_policy(PolicyConfiguration, config_file)
    /\ resolved = NoResolution
    /\ policy = create_default_policy
    /\ cache = <<>>
    /\ now = 0
    /\ req = ReqIdle
    /\ last_call = NoCall
    /\ th = [t \in Threads |-> ThIdle]
    /\ loading = Loaded(config_file, 1)
    /\ matching = NoMatch
    /\ checking = NoCheck
    /\ resolving = NoResolving

NextBypass ==
    \/ \E f \in BypassFiles : Reconfigure(f)
    \/ \E n \in {"prod", "default"}, p \in BypassPods, t \in BypassTokens :
           validate_pod_begin(n, p, t)
    \/ \E out \in BypassRuns : validate_pod_image(out)
    \/ validate_pod_return

SpecBypass == InitBypass /\ [][NextBypass]_vars

---------------------------------------------------------------------------
(* The verification cache: single-image verifications, one at a time, with
   time passing, cache clears and policy changes *)

CacheFiles == {FileMissing, FileX}
CacheNamespaces == {"prod", "default"}
CacheImages == {ImgN1}
CacheRuns == {CosignRun("rc0", Some("s1"), FALSE),
              CosignRun("rc0_empty", None, FALSE),
              CosignRun("no_signatures", None, FALSE)}

InitCache ==
    /\ config_file \in CacheFiles
    /\ policy_config = _load_policy(PolicyConfiguration, config_file)
    /\ resolved = NoResolution
    /\ policy = create_default_policy
    /\ cache = <<>>
    /\ now = 0
    /\ req = ReqIdle
    /\ last_call = NoCall
    /\ th = [t \in Threads |-> ThIdle]
    /\ loading = Loaded(config_file, 1)
    /\ matching = NoMatch
    /\ checking = NoCheck
    /\ resolving = NoResolving

NextCache ==
    \/ \E f \in CacheFiles : Reconfigure(f)
    \/ \E n \in CacheNamespaces, i \in CacheImages, out \in CacheRuns :
           verify_image_endpoint(n, i, out)
    \/ clear_cache
    \/ Tick

SpecCache == InitCache /\ [][NextCache]_vars

---------------------------------------------------------------------------
(* Concurrent verifications: the threads of the server, the cache cleared
   and time passing in between *)

ConcNamespaces == {"kube-system", "prod", "default"}
ConcImages == {ImgN1}
ConcRuns == {CosignRun("rc0", Some("s1"), FALSE),
             CosignRun("rc0_empty", None, FALSE)}

InitConc ==
    /\ config_file = FileX
    /\ policy_config = _load_policy(PolicyConfiguration, config_file)
    /\ resolved = NoResolution
    /\ policy = create_default_policy
    /\ cache = <<>>
    /\ now = 0
    /\ req = ReqIdle
    /\ last_call = NoCall
    /\ th = [t \in Threads |-> ThIdle]
    /\ loading = Loaded(config_file, 1)
    /\ matching = NoMatch
    /\ checking = NoCheck
    /\ resolving = NoResolving

NextConc ==
    \/ \E t \in Threads, n \in ConcNamespaces, i \in ConcImages :
           thread_resolve(t, n, i)
    \/ \E t \in Threads : thread_lookup(t)
    \/ \E t \in Threads : thread_getitem(t)
    \/ \E t \in Threads, out \in ConcRuns : thread_verify(t, out)
    \/ \E t \in Threads : thread_return(t)
    \/ clear_cache
    \/ Tick

SpecConc == InitConc /\ [][NextConc]_vars

---------------------------------------------------------------------------
(* The policy store reloaded while a request is resolved *)

ReloadFiles == {FileMissing, FileMalformed, FileA, FileC, FileBad, FileBadNs}
ReloadNamespaces == {"prod", "dev"}
ReloadImages == {ImgN1}

InitReload ==
    /\ config_file \in ReloadFiles
    /\ policy_config = _load_policy(PolicyConfiguration, config_file)
    /\ resolved = NoResolution
    /\ policy = create_default_policy
    /\ cache = <<>>
    /\ now = 0
    /\ req = ReqIdle
    /\ last_call = NoCall
    /\ th = [t \in Threads |-> ThIdle]
    /\ loading = Loaded(config_file, 1)
    /\ matching = NoMatch
    /\ checking = NoCheck
    /\ resolving = NoResolving

NextReload ==
    \/ \E f \in ReloadFiles : WriteConfig(f)
    \/ load_begin
    \/ load_global
    \/ load_namespaces
    \/ load_images
    \/ load_version
    \/ \E n \in ReloadNamespaces, i \in ReloadImages : resolve_global(n, i)
    \/ resolve_namespaces
    \/ resolve_images
    \/ resolve_return

SpecReload == InitReload /\ [][NextReload]_vars

---------------------------------------------------------------------------
(* One request at a time whose cache entries can go, by a clearing of the
   cache or by the passing of time, between the verifier's test for the key
   and its read of the entry *)

IsolateNamespaces == {"prod", "default"}

IsolatePods ==
    {Pod(<<Some(ImgN1)>>, <<>>),
     Pod(<<Some(ImgN1), Some(ImgR1)>>, <<>>),
     Pod(<<Some(ImgR1)>>, <<Some(ImgN1)>>)}

IsolateRuns ==
    {CosignRun("rc0", Some("s1"), FALSE),
     CosignRun("rc0_empty", None, FALSE),
     CosignRun("no_signatures", None, FALSE)}

InitIsolate ==
    /\ config_file = FileX
    /\ policy_config = _load_policy(PolicyConfiguration, config_file)
    /\ resolved = NoResolution
    /\ policy = create_default_policy
    /\ cache = <<>>
    /\ now = 0
    /\ req = ReqIdle
    /\ last_call = NoCall
    /\ th = [t \in Threads |-> ThIdle]
    /\ loading = Loaded(config_file, 1)
    /\ resolving = NoResolving
    /\ matching = NoMatch
    /\ checking = NoCheck

NextIsolate ==
    \/ \E n \in IsolateNamespaces, p \in IsolatePods :
           validate_pod_begin(n, p, None)
    \/ \E out \in IsolateRuns : validate_pod_lookup(out)
    \/ validate_pod_getitem
    \/ validate_pod_return
    \/ clear_cache
    \/ Tick

SpecIsolate == InitIsolate /\ [][NextIsolate]_vars

---------------------------------------------------------------------------
(* The admission controller on a machine where the cosign executable is not
   installed: every run of the subprocess ends in FileNotFoundError *)

NotFound == CosignRun("not_found", None, FALSE)

InitUnavailable ==
    /\ config_file \in Files
    /\ policy_config = _load_policy(PolicyConfiguration, config_file)
    /\ resolved = NoResolution
    /\ policy = create_default_policy
    /\ cache = <<>>
    /\ now = 0
    /\ req = ReqIdle
    /\ last_call = NoCall
    /\ th = [t \in Threads |-> ThIdle]
    /\ loading = Loaded(config_file, 1)
    /\ resolving = NoResolving
    /\ matching = NoMatch
    /\ checking = NoCheck

NextUnavailable ==
    \/ \E f \in Files : Reconfigure(f)
    \/ \E n \in Namespaces, p \in Pods : validate_pod_begin(n, p, None)
    \/ validate_pod_image(NotFound)
    \/ validate_pod_return
    \/ clear_cache
    \/ Tick

SpecUnavailable == InitUnavailable /\ [][NextUnavailable]_vars

---------------------------------------------------------------------------
(* The policy checks on their own: every kind of result under every kind of
   policy *)

CheckSigners == {None, Some(<<>>), Some(<<"s1">>), Some(<<"s1", "s2">>)}
CheckRegistries == {None, Some(<<>>), Some(<<DockerHub>>), Some(<<LIo>>)}

CheckPolicies ==
    {AttestationPolicy(TRUE, signers, tlog, FALSE, registries, None, FALSE) :
        signers \in CheckSigners, registries \in CheckRegistries,
        tlog \in BOOLEAN}

Statuses == {"VERIFIED", "FAILED", "NOT_SIGNED", "POLICY_VIOLATION", "ERROR"}

CheckResults ==
    {AttestationResult(status, image, Msg("m"), format, signer, None) :
        status \in Statuses, image \in {ImgN1, ImgL},
        format \in {None, Some("COSIGN"), Some("NOTARY_V2")},
        signer \in {None, Some(""), Some("s1"), Some("s3")}}

InitCheck ==
    /\ config_file = FileMissing
    /\ policy_config = _load_policy(PolicyConfiguration, config_file)
    /\ resolved = NoResolution
    /\ policy = create_default_policy
    /\ cache = <<>>
    /\ now = 0
    /\ req = ReqIdle
    /\ last_call = NoCall
    /\ th = [t \in Threads |-> ThIdle]
    /\ loading = Loaded(config_file, 1)
    /\ resolving = NoResolving
    /\ matching = NoMatch
    /\ \E pol \in CheckPolicies, result \in CheckResults :
           checking = [NoCheck EXCEPT !.policy = pol, !.result = result]

NextCheck == apply_policy_checks

SpecCheck == InitCheck /\ [][NextCheck]_vars

---------------------------------------------------------------------------
(* The admission controller where every run of cosign exceeds the 30
   seconds that subprocess.run gives it.  A request that has begun goes on:
   the loop of validate_pod has nothing to wait for but the subprocess, which
   is killed at the timeout. *)

TimedOut == CosignRun("timeout", None, FALSE)

InitTimeout ==
    /\ config_file \in Files
    /\ policy_config = _load_policy(PolicyConfiguration, config_file)
    /\ resolved = NoResolution
    /\ policy = create_default_policy
    /\ cache = <<>>
    /\ now = 0
    /\ req = ReqIdle
    /\ last_call = NoCall
    /\ th = [t \in Threads |-> ThIdle]
    /\ loading = Loaded(config_file, 1)
    /\ resolving = NoResolving
    /\ matching = NoMatch
    /\ checking = NoCheck

NextTimeout ==
    \/ \E n \in Namespaces, p \in Pods : validate_pod_begin(n, p, None)
    \/ validate_pod_image(TimedOut)
    \/ validate_pod_return
    \/ clear_cache

SpecTimeout ==
    /\ InitTimeout
    /\ [][NextTimeout]_vars
    /\ WF_vars(validate_pod_image(TimedOut))
    /\ WF_vars(validate_pod_return)

---------------------------------------------------------------------------
(* The pattern matcher on its own: every text and every pattern up to a
   length *)

MaxLen == 3

TextChars == {"a", "b"}
PatternChars == {"a", "b", "*", "?"}

Strings(chars) == UNION {[1..n -> chars] : n \in 0..MaxLen}

InitMatch ==
    /\ config_file = FileMissing
    /\ policy_config = _load_policy(PolicyConfiguration, config_file)
    /\ resolved = NoResolution
    /\ policy = create_default_policy
    /\ cache = <<>>
    /\ now = 0
    /\ req = ReqIdle
    /\ last_call = NoCall
    /\ th = [t \in Threads |-> ThIdle]
    /\ loading = Loaded(config_file, 1)
    /\ resolving = NoResolving
    /\ \E text \in Strings(TextChars), pattern \in Strings(PatternChars) :
           matching = [NoMatch EXCEPT !.text = text, !.pattern = pattern]
    /\ checking = NoCheck

NextMatch == match_pattern

SpecMatch == InitMatch /\ [][NextMatch]_vars

---------------------------------------------------------------------------
(* The policy store on its own: edits of the file, reloads, resolutions *)


InitPolicy ==
    /\ config_file \in PolicyFiles
    /\ policy_config = _load_policy(PolicyConfiguration, config_file)
    /\ resolved = NoResolution
    /\ policy = create_default_policy
    /\ cache = <<>>
    /\ now = 0
    /\ req = ReqIdle
    /\ last_call = NoCall
    /\ th = [t \in Threads |-> ThIdle]
    /\ loading = Loaded(config_file, 1)
    /\ matching = NoMatch
    /\ checking = NoCheck
    /\ resolving = NoResolving

NextPolicy ==
    \/ \E f \in PolicyFiles : WriteConfig(f)
    \/ reload_policy
    \/ \E n \in PolicyNamespaces, i \in PolicyImages : Resolve(n, i)

SpecPolicy == InitPolicy /\ [][NextPolicy]_vars

---------------------------------------------------------------------------
(* Claims about the policy store and the resolver (SpecPolicy) *)

\* the namespace and image policies of a store that bear on a request
NamespaceEntries(pc, namespace) ==
    {i \in 1..Len(pc.namespace_policies) :
        pc.namespace_policies[i].namespace = namespace}

MatchingImageEntries(pc, image) ==
    {i \in 1..Len(pc.image_policies) :
        _match_pattern(image, pc.image_policies[i].image_pattern)}

IsExempt(pc, namespace, image) ==
    \/ \E i \in 1..Len(pc.global_policy.exempt_namespaces) :
           pc.global_policy.exempt_namespaces[i] = namespace
    \/ \E i \in 1..Len(pc.global_policy.exempt_images) :
           _match_pattern(image, pc.global_policy.exempt_images[i])

\* C2: a request whose namespace is in the exempt-namespace list, or whose
\* image matches an exempt-image pattern, resolves to a policy that requires
\* no signature, whatever namespace and image policies the store holds.
C2_ExemptionPrecedence ==
    resolved.called =>
        (IsExempt(resolved.store, resolved.namespace, resolved.image)
            => resolved.result.require_signature = FALSE)

\* C2 witness: an exempt namespace that has a namespace policy requiring a
\* signature, and an image matched by an image policy requiring one.
C2_Witness ==
    /\ resolved.called
    /\ In(resolved.namespace, resolved.store.global_policy.exempt_namespaces)
    /\ \E i \in NamespaceEntries(resolved.store, resolved.namespace) :
           resolved.store.namespace_policies[i].require_signature
    /\ \E i \in MatchingImageEntries(resolved.store, resolved.image) :
           resolved.store.image_policies[i].require_signature
    /\ resolved.result.require_signature = FALSE

\* the matching image policy of highest priority, the earliest of the list
\* among equals
TopEntry(pc, image) ==
    LET hits == MatchingImageEntries(pc, image)
    IN  CHOOSE i \in hits :
            \A j \in hits :
                \/ pc.image_policies[i].priority > pc.image_policies[j].priority
                \/ /\ pc.image_policies[i].priority
                          = pc.image_policies[j].priority
                   /\ i <= j

WithoutImagePolicies(pc) == [pc EXCEPT !.image_policies = <<>>]

\* C8: when image policies match a (non-exempt) request, the effective policy
\* takes require_signature from the matching entry of highest priority, and
\* allowed_signers from that entry if it sets any and otherwise from what the
\* resolution gives without image policies; never from another matching entry.
C8_PriorityOrdering ==
    (/\ resolved.called
     /\ ~IsExempt(resolved.store, resolved.namespace, resolved.image)
     /\ MatchingImageEntries(resolved.store, resolved.image) # {})
    => LET top  == resolved.store.image_policies[
                       TopEntry(resolved.store, resolved.image)]
           base == get_policy_for_request(
                       WithoutImagePolicies(resolved.store),
                       resolved.namespace, resolved.image)
       IN  /\ resolved.result.require_signature = top.require_signature
           /\ resolved.result.allowed_signers =
                  IF Truthy(top.allowed_signers) THEN top.allowed_signers
                  ELSE base.allowed_signers

\* C8 witness: several entries match, the one of highest priority sets no
\* signers, and a matching entry of lower priority differs from it in
\* require_signature and sets signers that the result does not have.
C8_Witness ==
    /\ resolved.called
    /\ ~IsExempt(resolved.store, resolved.namespace, resolved.image)
    /\ MatchingImageEntries(resolved.store, resolved.image) # {}
    /\ LET hits == MatchingImageEntries(resolved.store, resolved.image)
           t    == TopEntry(resolved.store, resolved.image)
           top  == resolved.store.image_policies[t]
       IN  /\ ~Truthy(top.allowed_signers)
           /\ \E j \in hits :
                  LET low == resolved.store.image_policies[j]
                  IN  /\ low.priority < top.priority
                      /\ low.require_signature # top.require_signature
                      /\ Truthy(low.allowed_signers)
                      /\ low.allowed_signers # resolved.result.allowed_signers

\* C9: the image-policy list of the store is in descending priority, and
\* entries of equal priority are in the order of their declaration.
C9_SortedStable ==
    \A i, j \in 1..Len(policy_config.image_policies) :
        i < j =>
            LET a == policy_config.image_policies[i]
                b == policy_config.image_policies[j]
            IN  \/ a.priority > b.priority
                \/ /\ a.priority = b.priority
                   /\ a.description[1] < b.description[1]

\* C9 witness: a store loaded from a file that declared its entries out of
\* priority order and holds two entries of equal priority.
C9_Witness ==
    /\ \E i, j \in 1..Len(policy_config.image_policies) :
           /\ i < j
           /\ policy_config.image_policies[i].description[1]
                  > policy_config.image_policies[j].description[1]
    /\ \E i, j \in 1..Len(policy_config.image_policies) :
           /\ i < j
           /\ policy_config.image_policies[i].priority
                  = policy_config.image_policies[j].priority

\* C10: with a namespace policy for the non-exempt namespace and no matching
\* image policy, require_signature, require_transparency_log and
\* require_provenance are the namespace record's, and
\* require_certificate_chain is the global one.
C10_NamespaceMerge ==
    (/\ resolved.called
     /\ ~IsExempt(resolved.store, resolved.namespace, resolved.image)
     /\ NamespaceEntries(resolved.store, resolved.namespace) # {}
     /\ MatchingImageEntries(resolved.store, resolved.image) = {})
    => LET hits == NamespaceEntries(resolved.store, resolved.namespace)
           ns   == resolved.store.namespace_policies[
                       CHOOSE i \in hits : \A j \in hits : i <= j]
           g    == resolved.store.global_policy
       IN  /\ resolved.result.require_signature = ns.require_signature
           /\ resolved.result.require_transparency_log
                  = ns.require_transparency_log
           /\ resolved.result.require_provenance = ns.require_provenance
           /\ resolved.result.require_certificate_chain
                  = g.require_certificate_chain

\* C10 witness: the namespace record requires no signature, the global
\* default requires one, and the two differ in the other fields as well.
C10_Witness ==
    /\ resolved.called
    /\ ~IsExempt(resolved.store, resolved.namespace, resolved.image)
    /\ MatchingImageEntries(resolved.store, resolved.image) = {}
    /\ \E i \in NamespaceEntries(resolved.store, resolved.namespace) :
           /\ resolved.store.namespace_policies[i].require_signature = FALSE
           /\ resolved.store.global_policy.default_require_signature = TRUE
           /\ resolved.store.global_policy.require_certificate_chain = TRUE
    /\ resolved.result.require_signature = FALSE
    /\ resolved.result.require_certificate_chain = TRUE


\* C11: allowed_registries, require_certificate_chain, min_slsa_level,
\* require_provenance and require_transparency_log of the effective policy
\* are what the resolution gives for the same request from the same store
\* without its image policies.
C11_ImagePolicyFrame ==
    resolved.called =>
        LET base == get_policy_for_request(
                        WithoutImagePolicies(resolved.store),
                        resolved.namespace, resolved.image)
            r    == resolved.result
        IN  /\ r.allowed_registries = base.allowed_registries
            /\ r.require_certificate_chain = base.require_certificate_chain
            /\ r.min_slsa_level = base.min_slsa_level
            /\ r.require_provenance = base.require_provenance
            /\ r.require_transparency_log = base.require_transparency_log

\* C11 witness: an image policy applies to a request whose policy without it
\* restricts the registries, requires a certificate chain and provenance,
\* sets a provenance level and does not require the transparency log.
C11_Witness ==
    /\ resolved.called
    /\ ~IsExempt(resolved.store, resolved.namespace, resolved.image)
    /\ MatchingImageEntries(resolved.store, resolved.image) # {}
    /\ Truthy(resolved.result.allowed_registries)
    /\ resolved.result.require_certificate_chain
    /\ TruthyInt(resolved.result.min_slsa_level)
    /\ resolved.result.require_provenance
    /\ ~resolved.result.require_transparency_log

\* a step in which nothing but a load of the policy file can have happened,
\* the file being the one the last load read
ReloadOfSame ==
    /\ loading.pc = "idle"
    /\ loading'.pc = "idle"
    /\ loading.file = config_file
    /\ config_file' = config_file
    /\ resolved' = resolved

\* C15: a reload of the configuration that the last load read leaves the
\* resolution of every (namespace, image) as it was, in all fields; so does
\* any number of such reloads.
C15_ReloadIdempotent ==
    [][ReloadOfSame =>
          \A n \in PolicyNamespaces, i \in PolicyImages :
              get_policy_for_request(policy_config', n, i)
                  = get_policy_for_request(policy_config, n, i)]_vars

\* C15 witness: the same file has been loaded twice in a row; it has no
\* 'namespaces' section, and the store holds the namespace policies of an
\* earlier file besides the image policies of this one.
C15_Witness ==
    /\ loading.pc = "idle"
    /\ loading.count >= 2
    /\ loading.file = config_file
    /\ config_file.kind = "data"
    /\ config_file.data.namespaces = None
    /\ config_file.data.images # None
    /\ policy_config.namespace_policies # <<>>
    /\ policy_config.image_policies # <<>>

---------------------------------------------------------------------------
(* The pod verdict *)

\* the outcome kinds that let an image pass
Passing == {"EXEMPT", "BYPASSED", "VERIFIED"}

\* the request went through the loop over its images
Evaluated ==
    /\ req.pc = "done"
    /\ req.response.text \notin {"emergency_bypass", "no_images"}

\* C1: a pod that is not emergency-bypassed has one outcome per image, in the
\* order of its images, and its verdict is ALLOW exactly when every outcome
\* is EXEMPT, BYPASSED or VERIFIED; one image ending otherwise denies the pod.
C1_VerdictAggregation ==
    Evaluated =>
        /\ req.images = extract_images_from_pod(req.pod)
        /\ Len(req.outcomes) = Len(req.images)
        /\ \A k \in 1..Len(req.outcomes) :
               req.outcomes[k].image = req.images[k]
        /\ req.response.allowed =
               (\A k \in 1..Len(req.outcomes) :
                    req.outcomes[k].status \in Passing)

\* a pod of two images is denied although one of them passes
C1_Witness ==
    /\ Evaluated
    /\ ~req.response.allowed
    /\ \E j, k \in 1..Len(req.outcomes) :
           /\ req.outcomes[j].status \in Passing
           /\ req.outcomes[k].status \notin Passing

\* the images of the outcomes that deny, in the order of the outcomes
RECURSIVE DeniedImages(_)
DeniedImages(outcomes) ==
    IF outcomes = <<>> THEN <<>>
    ELSE (IF outcomes[1].is_allowed THEN <<>> ELSE <<outcomes[1].image>>)
         \o DeniedImages(Tail(outcomes))

\* C12: the response of a denial that comes from the evaluation of the images
\* names as failed exactly the images whose outcome denied, and holds one
\* line for every image of the pod, in the order of the pod, with the message
\* of that image's outcome.
C12_DenialBreakdown ==
    (Evaluated /\ ~req.response.allowed) =>
        /\ req.response.text = "pod_rejected"
        /\ req.response.failed = DeniedImages(req.outcomes)
        /\ \A k \in 1..Len(req.outcomes) :
               req.outcomes[k].is_allowed
                   = (req.outcomes[k].status \in Passing)
        /\ Len(req.response.lines) = Len(req.images)
        /\ \A k \in 1..Len(req.images) :
               /\ req.response.lines[k].image = req.images[k]
               /\ req.response.lines[k].message = req.outcomes[k].message

\* C12 witness: [A: VERIFIED, B: NOT_SIGNED] is denied, B is the one failed
\* image and both have their line.
C12_Witness ==
    /\ Evaluated
    /\ ~req.response.allowed
    /\ Len(req.outcomes) = 2
    /\ req.outcomes[1].status = "VERIFIED"
    /\ req.outcomes[2].status = "NOT_SIGNED"
    /\ req.response.failed = <<req.images[2]>>
    /\ Len(req.response.lines) = 2

---------------------------------------------------------------------------
(* Emergency bypass *)

\* no token is configured: the setting is absent or the empty string
NoTokenConfigured(pc) ==
    pc.global_policy.emergency_bypass_token \in {None, Some("")}

BypassCondition(pc, token) ==
    /\ pc.global_policy.emergency_bypass
    /\ \/ NoTokenConfigured(pc)
       \/ token = pc.global_policy.emergency_bypass_token

\* a request is taken up
BeginStep == req.pc = "idle" /\ req'.pc # "idle"

\* C3: a request is emergency-bypassed exactly when the bypass is enabled
\* and either no token is configured or the supplied token equals the
\* configured one.  A bypassed request is allowed at once, without any image
\* being looked at; any other request with images goes on to the evaluation
\* of its images.
C3_EmergencyBypass ==
    [][BeginStep =>
         IF BypassCondition(policy_config, req'.token)
         THEN /\ req'.pc = "done"
              /\ req'.response.allowed
              /\ req'.response.text = "emergency_bypass"
              /\ req'.outcomes = <<>>
              /\ cache' = cache
         ELSE /\ req'.response.text # "emergency_bypass"
              /\ extract_images_from_pod(req'.pod) # <<>> =>
                     /\ req'.pc = "verify"
                     /\ req'.images = extract_images_from_pod(req'.pod)
                     /\ req'.outcomes = <<>>]_vars

\* the configured token T was supplied and the pod is allowed, although the
\* cache holds a failing outcome for its image under the policy of its
\* namespace
C3_Witness ==
    /\ req.pc = "done"
    /\ req.response.text = "emergency_bypass"
    /\ req.response.allowed
    /\ req.token = Some("T")
    /\ policy_config.global_policy.emergency_bypass_token = Some("T")
    /\ \E k \in 1..Len(cache) :
           /\ cache[k].key =
                  _get_cache_key(ImgN1,
                      get_policy_for_request(policy_config, req.namespace,
                                             ImgN1))
           /\ cache[k].value.status # "VERIFIED"
           /\ ImgN1 \in {extract_images_from_pod(req.pod)[i] :
                           i \in 1..Len(extract_images_from_pod(req.pod))}

---------------------------------------------------------------------------
(* Exempt images and the verifier *)

\* the next image of the request is verified
ImageStep == req.pc = "verify" /\ req' # req

\* C7: when the namespace or the image of the request is exempt, the image
\* gets the outcome EXEMPT and is allowed, the external verifier does not
\* run, and the cache and the verifier's policy stay as they were, whatever
\* the cache holds; no cache entry is ever stored under a policy that
\* requires no signature.
C7_ExemptNeverVerified ==
    /\ [][ImageStep /\ IsExempt(policy_config, req.namespace,
                                req.images[req.i]) =>
            /\ cache' = cache
            /\ policy' = policy
            /\ LET o == req'.outcomes[Len(req'.outcomes)]
               IN  /\ o.status = "EXEMPT"
                   /\ o.is_allowed
                   /\ ~o.invoked]_vars
    /\ [](\A k \in 1..Len(cache) : cache[k].key.policy.require_signature)

\* an exempt image got the outcome EXEMPT while the cache holds a failing
\* outcome for the same image, stored when it was not exempt
C7_Witness ==
    /\ req.pc \in {"verify", "done"}
    /\ \E j \in 1..Len(req.outcomes) :
           /\ req.outcomes[j].status = "EXEMPT"
           /\ IsExempt(policy_config, req.namespace, req.outcomes[j].image)
           /\ \E k \in 1..Len(cache) :
                  /\ cache[k].key.image = req.outcomes[j].image
                  /\ cache[k].value.status # "VERIFIED"
                  /\ now < cache[k].expires

---------------------------------------------------------------------------
(* The verification cache *)

\* a verification call returns
CallStep == last_call'.called /\ last_call'.turn # last_call.turn

\* the call before, with no clear since, was for the same (image, effective
\* policy) and less than one TTL ago
SameKeyWithinTTL ==
    /\ last_call.called
    /\ last_call.outcome.key # None
    /\ last_call'.outcome.key = last_call.outcome.key
    /\ now < last_call.at + ttl

\* C4: of two verification calls for the same (image, effective policy)
\* within one TTL window, with no clear between them, only the first runs
\* the external verifier, and the second returns the outcome of the first.
C4_CacheHit ==
    [][CallStep /\ SameKeyWithinTTL /\ last_call.outcome.invoked =>
         /\ ~last_call'.outcome.invoked
         /\ last_call'.result = last_call.result]_vars

\* the cache is cleared after a call
ClearStep == last_call.called /\ ~last_call'.called

\* every entry found for the key was older than the TTL
FoundOlderThanTTL(call) ==
    \A k \in 1..Len(call.found) : call.at - call.found[k].stored > ttl

\* C5: a clear leaves no entry in the cache, so that the first verification
\* call after it (for an image that requires a signature) runs the external
\* verifier; and a call that finds only an entry older than the TTL for its
\* (image, effective policy) runs the external verifier again.
C5_MissAfterExpiryOrClear ==
    /\ [][ClearStep => cache' = <<>>]_vars
    /\ [][CallStep /\ ~last_call.called /\ last_call'.outcome.key # None =>
              last_call'.outcome.invoked]_vars
    /\ [](last_call.called /\ last_call.outcome.key # None
              /\ FoundOlderThanTTL(last_call) =>
          last_call.outcome.invoked)

\* a call found an entry older than the TTL for its key and ran the verifier
C5_Witness ==
    /\ last_call.called
    /\ last_call.outcome.key # None
    /\ last_call.found # <<>>
    /\ FoundOlderThanTTL(last_call)
    /\ last_call.outcome.invoked

---------------------------------------------------------------------------
(* The cache key under concurrent calls *)

\* C6: the cache key a verification call computes, looks up and stores under
\* is (its image, the effective policy it resolved for its own namespace and
\* image), and the entry a hit returns is keyed so: no call returns the
\* outcome cached under another policy.
C6_KeyedByEffectivePolicy ==
    \A t \in Threads :
        /\ th[t].key # None =>
               th[t].key[1] = _get_cache_key(th[t].image, th[t].eff[1])
        /\ th[t].hit # None =>
               /\ th[t].hit[1].key.image = th[t].image
               /\ th[t].hit[1].key.policy = th[t].eff[1]

\* C14: whatever the interleaving of concurrent verifications, the policy in
\* the cache key of a call, and the policy that the checks on its verified
\* result read, are the effective policy the call resolved for its own
\* (namespace, image).
C14_OwnPolicy ==
    \A t \in Threads :
        /\ th[t].key # None => th[t].key[1].policy = th[t].eff[1]
        /\ th[t].checked # None => th[t].checked[1] = th[t].eff[1]

---------------------------------------------------------------------------
(* Reload and resolution at the same time *)

\* C13: a resolution returns the policy that one complete policy set gives
\* for its request: the store as it was when the resolution began (before
\* the load then in progress, if any), or the store that a load in progress
\* during the resolution ends with.
C13_ReloadAtomic ==
    resolving.pc = "done" =>
        \E store \in resolving.complete :
            resolving.policy =
                get_policy_for_request(store, resolving.namespace,
                                       resolving.image)

---------------------------------------------------------------------------
(* The pattern matcher *)

\* the positions of "*" in a pattern
Stars(pattern) == {k \in 1..Len(pattern) : pattern[k] = "*"}

\* text begins with prefix; text ends with suffix (each on the whole text)
BeginsWith(text, prefix) ==
    /\ Len(prefix) <= Len(text)
    /\ \A k \in 1..Len(prefix) : text[k] = prefix[k]

EndsWith(text, suffix) ==
    /\ Len(suffix) <= Len(text)
    /\ \A k \in 1..Len(suffix) :
           text[Len(text) - Len(suffix) + k] = suffix[k]

\* C16: _match_pattern is true for the pattern "*"; is the equality of text
\* and pattern for a pattern without "*"; and for a pattern with exactly one
\* "*" is true exactly when the text begins with the part before the "*" and
\* ends with the part after it, both on the whole text.
C16_MatchPattern ==
    matching.called =>
        LET text    == matching.text
            pattern == matching.pattern
        IN  /\ pattern = <<"*">> => matching.result
            /\ Stars(pattern) = {} => (matching.result = (text = pattern))
            /\ Cardinality(Stars(pattern)) = 1 =>
                   LET k == CHOOSE j \in Stars(pattern) : TRUE
                   IN  matching.result =
                           (/\ BeginsWith(text, SubSeq(pattern, 1, k - 1))
                            /\ EndsWith(text, SubSeq(pattern, k + 1,
                                                      Len(pattern))))

\* C16 witness: a pattern with one "*" matches a text in which the part
\* before the "*" and the part after it overlap.
C16_Witness ==
    /\ matching.called
    /\ matching.result
    /\ Cardinality(Stars(matching.pattern)) = 1
    /\ Len(matching.text) < Len(matching.pattern) - 1

---------------------------------------------------------------------------
(* Failures of single images *)

\* C17: when the processing of an image of a pod ends in an error (the
\* verifier's or the webhook's handler caught an exception), the request
\* still ends with a pod response that denies; the image is denied, is among
\* the failed images and has its line; and every image of the pod has been
\* processed and has its line, in the order of the pod.
C17_FailureIsolation ==
    (/\ req.pc = "done"
     /\ \E k \in 1..Len(req.outcomes) : req.outcomes[k].status = "ERROR") =>
        /\ req.response.text = "pod_rejected"
        /\ ~req.response.allowed
        /\ Len(req.outcomes) = Len(req.images)
        /\ Len(req.response.lines) = Len(req.images)
        /\ \A j \in 1..Len(req.images) :
               /\ req.outcomes[j].image = req.images[j]
               /\ req.response.lines[j] =
                      [image   |-> req.images[j],
                       message |-> req.outcomes[j].message]
        /\ \A k \in 1..Len(req.outcomes) :
               req.outcomes[k].status = "ERROR" =>
                   /\ ~req.outcomes[k].is_allowed
                   /\ In(req.images[k], req.response.failed)
                   /\ req.outcomes[k].message \in
                          {"rejected_internal_error",
                           "rejected_verification_error"}

\* C17 witness: the first image of a pod fell into the webhook's handler and
\* a later image of the same pod was verified and allowed.
C17_Witness ==
    /\ req.pc = "done"
    /\ \E k, j \in 1..Len(req.outcomes) :
           /\ k < j
           /\ req.outcomes[k].message = "rejected_internal_error"
           /\ req.outcomes[j].is_allowed
           /\ req.outcomes[j].status = "VERIFIED"

\* C18: where the cosign executable cannot be found, every image of a
\* request whose effective policy requires a signature ends NOT_SIGNED, is
\* not allowed and is among the failed images, and the response for its pod
\* denies.
C18_VerifierUnavailable ==
    \A k \in 1..Len(req.outcomes) :
        req.outcomes[k].effective.require_signature =>
            /\ req.outcomes[k].status = "NOT_SIGNED"
            /\ ~req.outcomes[k].is_allowed
            /\ In(req.outcomes[k].image, req.failed)
            /\ req.pc = "done" =>
                   /\ ~req.response.allowed
                   /\ req.response.text = "pod_rejected"

\* C18 witness: the tool was run for an image whose policy requires a
\* signature, was not found, and the pod was denied.
C18_Witness ==
    /\ req.pc = "done"
    /\ ~req.response.allowed
    /\ \E k \in 1..Len(req.outcomes) :
           /\ req.outcomes[k].effective.require_signature
           /\ req.outcomes[k].invoked
           /\ req.outcomes[k].status = "NOT_SIGNED"

---------------------------------------------------------------------------
(* Policy files that cannot be parsed *)

\* the files whose content is not a document, or whose parse raises
Unparsable == {FileMalformed, FileBad, FileBadNs}

---------------------------------------------------------------------------
(* The policy of an exemption *)

\* C20: the policy returned for an exempt namespace or an exempt image has
\* require_signature false and every other check off: no transparency log,
\* certificate chain or provenance required, and no allowed signers, allowed
\* registries or minimum provenance level set.
C20_ExemptAllDisabled ==
    (/\ resolved.called
     /\ \/ In(resolved.namespace, resolved.store.global_policy.exempt_namespaces)
        \/ _is_image_exempt(resolved.store, resolved.image)) =>
        /\ ~resolved.result.require_signature
        /\ ~resolved.result.require_transparency_log
        /\ ~resolved.result.require_certificate_chain
        /\ ~resolved.result.require_provenance
        /\ resolved.result.allowed_signers = None
        /\ resolved.result.allowed_registries = None
        /\ resolved.result.min_slsa_level = None

---------------------------------------------------------------------------
(* The policy checks (SpecCheck) *)

\* the image's registry is not in a non-empty list of allowed registries
RegistryRefused(pol, result) ==
    /\ Truthy(pol.allowed_registries)
    /\ ~In(_extract_registry(result.image), pol.allowed_registries[1])

\* the transparency log is required and the signature is not one that is
\* taken to be recorded in it
LogMissing(pol, result) ==
    /\ pol.require_transparency_log
    /\ result.signature_format # Some("COSIGN")

\* C21: a result that is not VERIFIED passes the policy checks unchanged; a
\* VERIFIED result whose signer is not in a non-empty list of allowed
\* signers, or whose registry is not in a non-empty list of allowed
\* registries, or that lacks a required transparency log entry, comes out as
\* POLICY_VIOLATION.
C21_PolicyChecks ==
    checking.called =>
        LET pol    == checking.policy
            result == checking.result
        IN  /\ result.status # "VERIFIED" => checking.final = result
            /\ (/\ result.status = "VERIFIED"
                /\ \/ /\ Truthy(pol.allowed_signers)
                      /\ \/ result.signer = None
                         \/ ~In(result.signer[1], pol.allowed_signers[1])
                   \/ RegistryRefused(pol, result)
                   \/ LogMissing(pol, result)) =>
                   checking.final.status = "POLICY_VIOLATION"

\* C22: a VERIFIED result without a signer, checked under a policy that
\* lists allowed signers, is not refused for its signer; when the registry
\* and the transparency log pass it stays as it is, VERIFIED, and the image
\* is allowed.
C22_AbsentSignerSkipped ==
    (/\ checking.called
     /\ checking.result.status = "VERIFIED"
     /\ checking.result.signer \in {None, Some("")}
     /\ Truthy(checking.policy.allowed_signers)) =>
        /\ "signer" \notin checking.final.message.violations
        /\ (/\ ~RegistryRefused(checking.policy, checking.result)
            /\ ~LogMissing(checking.policy, checking.result)) =>
               /\ checking.final = checking.result
               /\ checking.decision.is_allowed

\* C22 witness: a result of cosign without a Subject, checked under a policy
\* that lists a signer, came out VERIFIED and the image was allowed.
C22_Witness ==
    /\ checking.called
    /\ checking.result.status = "VERIFIED"
    /\ checking.result.signer = None
    /\ checking.result.signature_format = Some("COSIGN")
    /\ checking.policy.allowed_signers = Some(<<"s1">>)
    /\ checking.final.status = "VERIFIED"
    /\ checking.decision.is_allowed

---------------------------------------------------------------------------
(* The order of the bypass check (SpecBypass) *)

\* C23: a request answered by the emergency bypass has extracted no image
\* and has no outcome of any image, and from its arrival to its response
\* the verifier's policy and the cache stay as they were.
C23_BypassFirst ==
    /\ [](req.response.text = "emergency_bypass" =>
              /\ req.pc = "done"
              /\ req.images = <<>>
              /\ req.i = 0
              /\ req.outcomes = <<>>
              /\ req.failed = <<>>)
    /\ [][(\/ req.response.text = "emergency_bypass"
           \/ req'.response.text = "emergency_bypass") =>
              /\ cache' = cache
              /\ policy' = policy]_vars

\* C23 witness: a pod with an image was let through by the bypass while the
\* cache held a result.
C23_Witness ==
    /\ req.response.text = "emergency_bypass"
    /\ req.pod.containers # <<>>
    /\ cache # <<>>

---------------------------------------------------------------------------
(* The fields an image policy and a namespace policy give (SpecPolicy) *)

\* the first namespace policy of the store for the namespace
FirstNamespaceEntry(pc, namespace) ==
    pc.namespace_policies[
        CHOOSE i \in NamespaceEntries(pc, namespace) :
            \A j \in NamespaceEntries(pc, namespace) : i <= j]

\* C24 as stated: with a matching image policy for a non-exempt request,
\* require_signature is the image policy's, and allowed_signers are the
\* image policy's if it has the key, otherwise the namespace record's if
\* there is one and it has the key, otherwise the global ones.
C24_ImageOverridesIfSet ==
    (/\ resolved.called
     /\ ~IsExempt(resolved.store, resolved.namespace, resolved.image)
     /\ MatchingImageEntries(resolved.store, resolved.image) # {})
    => LET top    == resolved.store.image_policies[
                         TopEntry(resolved.store, resolved.image)]
           hasNs  == NamespaceEntries(resolved.store, resolved.namespace) # {}
           ns     == FirstNamespaceEntry(resolved.store, resolved.namespace)
           before == IF hasNs /\ ns.allowed_signers # None
                     THEN ns.allowed_signers
                     ELSE resolved.store.global_policy.default_allowed_signers
       IN  /\ resolved.result.require_signature = top.require_signature
           /\ resolved.result.allowed_signers =
                  IF top.allowed_signers # None THEN top.allowed_signers
                  ELSE before

\* C24 amended: with a matching image policy for a non-exempt request,
\* require_signature is the image policy's, and allowed_signers are the
\* image policy's if it lists any, otherwise the namespace record's if there
\* is one and it lists any, otherwise the global ones; an empty list counts
\* as no list.
C24_ImageOverrides ==
    (/\ resolved.called
     /\ ~IsExempt(resolved.store, resolved.namespace, resolved.image)
     /\ MatchingImageEntries(resolved.store, resolved.image) # {})
    => LET top    == resolved.store.image_policies[
                         TopEntry(resolved.store, resolved.image)]
           hasNs  == NamespaceEntries(resolved.store, resolved.namespace) # {}
           ns     == FirstNamespaceEntry(resolved.store, resolved.namespace)
           before == IF hasNs /\ Truthy(ns.allowed_signers)
                     THEN ns.allowed_signers
                     ELSE resolved.store.global_policy.default_allowed_signers
       IN  /\ resolved.result.require_signature = top.require_signature
           /\ resolved.result.allowed_signers =
                  IF Truthy(top.allowed_signers) THEN top.allowed_signers
                  ELSE before

\* C24 witness: the image policy requires a signature where the namespace
\* record requires none, and sets an empty list of signers, so that the
\* signers are the namespace record's.
C24_Witness ==
    /\ resolved.called
    /\ ~IsExempt(resolved.store, resolved.namespace, resolved.image)
    /\ MatchingImageEntries(resolved.store, resolved.image) # {}
    /\ NamespaceEntries(resolved.store, resolved.namespace) # {}
    /\ LET top == resolved.store.image_policies[
                      TopEntry(resolved.store, resolved.image)]
           ns  == FirstNamespaceEntry(resolved.store, resolved.namespace)
       IN  /\ top.allowed_signers = Some(<<>>)
           /\ top.require_signature
           /\ ~ns.require_signature
           /\ resolved.result.require_signature
           /\ resolved.result.allowed_signers = ns.allowed_signers
           /\ Truthy(ns.allowed_signers)

---------------------------------------------------------------------------
(* What a reload leaves of the store before it (SpecPolicy) *)

\* C26: after a load of a file that parses, the store holds nothing of the
\* configuration loaded before: where the file has no 'global' section the
\* global policy is the one of a new store, and where it has no 'namespaces'
\* or no 'images' section the store has no namespace or no image policies.
C26_ReplacedWholesale ==
    (/\ loading.pc = "idle"
     /\ loading.file.kind = "data"
     /\ ~ParseRaises(loading.file.data)) =>
        /\ loading.file.data.global = None =>
               policy_config.global_policy = GlobalPolicy
        /\ loading.file.data.namespaces = None =>
               policy_config.namespace_policies = <<>>
        /\ loading.file.data.images = None =>
               policy_config.image_policies = <<>>

---------------------------------------------------------------------------
(* What a miss stores (SpecCache) *)

\* C27: when a verification call that ran the external verifier returns, the
\* cache holds, under the key of the call, the result the call returns,
\* stored at the time of the call, whatever the kind of the result.
C27_StoredOnMiss ==
    [][CallStep /\ last_call'.outcome.invoked =>
         \E k \in 1..Len(cache') :
             /\ <<cache'[k].key>> = last_call'.outcome.key
             /\ <<cache'[k].value>> = last_call'.result
             /\ cache'[k].stored = now]_vars

---------------------------------------------------------------------------
(* Timeouts of the external verifier (SpecTimeout) *)

\* C28: where the runs of cosign time out, every image of a request whose
\* policy requires a signature ends in ERROR, is not allowed and is among
\* the failed images, and the response for its pod denies; and a request
\* that is verifying its images comes to its response, and the response is
\* sent.
C28_TimeoutDenies ==
    /\ [](\A k \in 1..Len(req.outcomes) :
              req.outcomes[k].effective.require_signature =>
                  /\ req.outcomes[k].status = "ERROR"
                  /\ ~req.outcomes[k].is_allowed
                  /\ In(req.outcomes[k].image, req.failed)
                  /\ req.pc = "done" =>
                         /\ ~req.response.allowed
                         /\ req.response.text = "pod_rejected")
    /\ (req.pc = "verify" ~> req.pc = "done")
    /\ (req.pc = "done" ~> req.pc = "idle")

\* C28 witness: cosign was run for an image, timed out, and the pod was
\* denied.
C28_Witness ==
    /\ req.pc = "done"
    /\ ~req.response.allowed
    /\ \E k \in 1..Len(req.outcomes) :
           /\ req.outcomes[k].invoked
           /\ req.outcomes[k].status = "ERROR"
           /\ req.outcomes[k].message = "rejected_verification_error"

---------------------------------------------------------------------------
(* The order of the lines of the message (Spec) *)

\* the containers of a pod that declare an image: the regular ones in their
\* order, then the init containers in theirs
Declaring(pod) ==
    SelectSeq(pod.containers \o pod.initContainers, LAMBDA c : c # None)

\* C29: the response of a request whose images were evaluated, allowed or
\* denied, has one line for every container that declares an image, in the
\* order of the declarations, regular containers before init containers, and
\* the line carries the image of its container and the message of that
\* image's outcome.
C29_DeclarationOrder ==
    Evaluated =>
        /\ Len(req.response.lines) = Len(Declaring(req.pod))
        /\ Len(req.outcomes) = Len(Declaring(req.pod))
        /\ \A k \in 1..Len(Declaring(req.pod)) :
               /\ req.response.lines[k].image = Declaring(req.pod)[k][1]
               /\ req.outcomes[k].image = Declaring(req.pod)[k][1]
               /\ req.response.lines[k].message = req.outcomes[k].message

\* C29 witness: a pod with a regular container, a container without image
\* and an init container with another image has its two lines, the regular
\* container's first.
C29_Witness ==
    /\ Evaluated
    /\ Len(req.pod.containers) = 2
    /\ req.pod.containers[2] = None
    /\ Len(req.pod.initContainers) = 1
    /\ Len(req.response.lines) = 2
    /\ req.response.lines[1].image = req.pod.containers[1][1]
    /\ req.response.lines[2].image = req.pod.initContainers[1][1]
    /\ req.response.lines[1].image # req.response.lines[2].image

---------------------------------------------------------------------------
(* Pods without images (Spec) *)

\* C30: a request that is not bypassed and whose pod has no container that
\* declares an image is answered at once: it is allowed with the message
\* that no images were found, no image has an outcome, and the verifier's
\* policy and the cache are as they were.
C30_NoImagesAllowed ==
    /\ [][(/\ req.pc = "idle"
           /\ req'.pc # "idle"
           /\ Declaring(req'.pod) = <<>>
           /\ ~is_emergency_bypass_enabled(policy_config, req'.token)) =>
              /\ req'.pc = "done"
              /\ req'.response.allowed
              /\ req'.response.text = "no_images"
              /\ req'.response.lines = <<>>
              /\ req'.outcomes = <<>>
              /\ cache' = cache
              /\ policy' = policy
              /\ resolved' = resolved]_vars
    /\ [](req.response.text = "no_images" =>
              /\ req.pc = "done"
              /\ req.outcomes = <<>>
              /\ Declaring(req.pod) = <<>>)

\* C30 witness: a pod with a container that declares no image was allowed
\* while the cache held a result.
C30_Witness ==
    /\ req.pc = "done"
    /\ req.response.text = "no_images"
    /\ req.response.allowed
    /\ req.pod.containers # <<>>
    /\ cache # <<>>

\* ---------------------------------------------------------------------
\* Malformed admission requests (src/webhook.py 110-181, 192-220).
\*
\* validate_pod reads the review with chained .get calls inside one try
\* block.  A part of the review that is present but is not a mapping
\* (null, a number, a list) makes the next .get raise AttributeError; a
\* "containers" value that cannot be iterated makes the extraction loop
\* raise TypeError.  ReviewFaults names the part that is not what the
\* code expects, in the order the code reads them; "none" is a
\* well-formed review.
ReviewFaults ==
    {"review", "request", "object", "metadata", "userInfo", "spec",
     "containers"}

\* The parts read before the bypass test (lines 115-123): a fault in one
\* of them raises before the token is compared.
BeforeBypass == {"review", "request", "object", "metadata", "userInfo"}

\* The except handler (lines 175-181) builds its response from
\* admission_review.get("request", {}).get("uid", ""): the same
\* expression that raised when the review or its "request" is not a
\* mapping, so the handler raises in turn and validate_pod returns
\* nothing.
HandlerRaises(fault) == fault \in {"review", "request"}

\* validate_pod on a review with one malformed part.  The namespace and
\* the token are read where the review still allows it.
validate_pod_malformed(fault, bypass_token) ==
    /\ req.pc = "idle"
    /\ fault \in ReviewFaults
    /\ LET token == IF fault \in BeforeBypass THEN None ELSE bypass_token
           r     == [ReqIdle EXCEPT !.namespace = "default",
                                    !.token     = token,
                                    !.fault     = fault]
       IN  req' =
             IF HandlerRaises(fault)
             THEN [r EXCEPT !.pc = "raised"]
             ELSE IF /\ fault \notin BeforeBypass
                     /\ is_emergency_bypass_enabled(policy_config, token)
             THEN [r EXCEPT !.pc = "done",
                            !.response = create_admission_response(
                                TRUE, "emergency_bypass", <<>>, <<>>)]
             ELSE [r EXCEPT !.pc = "done",
                            !.response = create_admission_response(
                                FALSE, "internal_error", <<>>, <<>>)]
    /\ UNCHANGED <<checking, matching, loading, resolving, config_file, policy_config, resolved, policy, cache, now,
                   last_call, th>>

\* The /validate endpoint when validate_pod raised (lines 209-220): the
\* endpoint answers HTTP 500 with a body it builds itself, and the
\* request is over.
validate_error ==
    /\ req.pc = "raised"
    /\ req' = ReqIdle
    /\ UNCHANGED <<checking, matching, loading, resolving, config_file, policy_config, resolved, policy, cache, now,
                   last_call, th>>

ReviewTokens == {None, Some("T")}

ReviewPods ==
    {Pod(<<>>, <<>>),
     Pod(<<Some(ImgN1)>>, <<>>),
     Pod(<<Some(ImgP1)>>, <<Some(ImgN1)>>)}

ReviewRuns ==
    {CosignRun("rc0", Some("s1"), FALSE),
     CosignRun("no_signatures", None, FALSE)}

InitReview ==
    /\ config_file \in Files
    /\ policy_config = _load_policy(PolicyConfiguration, config_file)
    /\ resolved = NoResolution
    /\ policy = create_default_policy
    /\ cache = <<>>
    /\ now = 0
    /\ req = ReqIdle
    /\ last_call = NoCall
    /\ th = [t \in Threads |-> ThIdle]
    /\ loading = Loaded(config_file, 1)
    /\ resolving = NoResolving
    /\ matching = NoMatch
    /\ checking = NoCheck

NextReview ==
    \/ \E n \in Namespaces, p \in ReviewPods, t \in ReviewTokens :
          validate_pod_begin(n, p, t)
    \/ \E f \in ReviewFaults, t \in ReviewTokens :
          validate_pod_malformed(f, t)
    \/ \E out \in ReviewRuns : validate_pod_image(out)
    \/ validate_pod_return
    \/ validate_error
    \/ clear_cache

SpecReview == InitReview /\ [][NextReview]_vars

\* The verdicts validate_pod can build (lines 126-173, 175-181).
VerdictTexts ==
    {"pod_rejected", "pod_allowed", "emergency_bypass", "no_images",
     "internal_error"}

\* A denial of the whole pod that names no image.
DeniedOutright ==
    /\ req.pc = "done"
    /\ ~req.response.allowed
    /\ req.response.lines = <<>>

\* C31: validate_pod returns a well-formed verdict for every admission
\* request (it never ends without one); the pod is denied outright,
\* without per-image detail, only when the review itself is malformed;
\* and an error raised outside the per-image processing of a request
\* that is not bypassed gives a denial, never an admission.
C31_OneVerdict ==
    /\ req.pc # "raised"
    /\ req.pc = "done" => req.response.text \in VerdictTexts
    /\ DeniedOutright => req.fault # "none"
    /\ (req.pc = "done" /\ req.fault # "none"
            /\ req.response.text # "emergency_bypass")
           => ~req.response.allowed

\* The part of C31 that holds: whenever validate_pod does return, the
\* verdict is well formed, an outright denial comes from a malformed
\* review only, and a malformed review is never admitted outside the
\* emergency bypass.
C31_ReturnedVerdicts ==
    /\ req.pc = "done" => req.response.text \in VerdictTexts
    /\ DeniedOutright => req.fault # "none"
    /\ (req.pc = "done" /\ req.fault # "none"
            /\ req.response.text # "emergency_bypass")
           => ~req.response.allowed

---------------------------------------------------------------------------
(* The bounds of the verification cache *)

\* a call that returned what it read from the cache
ReturnedFromCache(call) ==
    /\ call.called
    /\ call.outcome.key # None
    /\ call.result # None
    /\ ~call.outcome.invoked

\* C32: after any sequence of verification calls, clears, policy changes
\* and passing time the cache holds at most maxsize entries, under distinct
\* keys; and what a call returns from the cache is an entry it found under
\* its key that was not older than the TTL at the time of the call.
C32_BoundedAndFresh ==
    /\ Len(cache) <= maxsize
    /\ \A i, j \in 1..Len(cache) : cache[i].key = cache[j].key => i = j
    /\ ReturnedFromCache(last_call) =>
          \E k \in 1..Len(last_call.found) :
              /\ Some(last_call.found[k].value) = last_call.result
              /\ last_call.at - last_call.found[k].stored <= ttl

\* the cache is full of entries that are all still fresh, and the last call
\* has just stored its result under a key that was not there
C32_Witness ==
    /\ Len(cache) = maxsize
    /\ \A i \in 1..Len(cache) : now < cache[i].expires
    /\ last_call.called
    /\ last_call.outcome.invoked
    /\ last_call.found = <<>>
    /\ \E i \in 1..Len(cache) :
          /\ Some(cache[i].key) = last_call.outcome.key
          /\ cache[i].stored = now

---------------------------------------------------------------------------
(* Fail-closed admission *)

\* the call of thread t has ended for an image whose effective policy
\* requires a signature
EndedRequired(t) ==
    /\ th[t].pc = "done"
    /\ th[t].eff # None
    /\ th[t].eff[1].require_signature

\* C33: an image whose effective policy requires a signature is admitted
\* only with the outcome VERIFIED (NOT_SIGNED, FAILED, POLICY_VIOLATION and
\* ERROR never admit it), and that outcome is a successful verification of
\* this image under this effective policy: read from the cache under the
\* key of (image, effective policy), or reported by the external verifier
\* in this call and passed through the checks of this effective policy.
C33_FailClosed ==
    \A t \in Threads :
        EndedRequired(t) =>
            /\ th[t].outcome.is_allowed = (th[t].outcome.status = "VERIFIED")
            /\ th[t].outcome.is_allowed =>
                  /\ th[t].key =
                        Some(_get_cache_key(th[t].image, th[t].eff[1]))
                  /\ th[t].hit # None =>
                        th[t].hit[1].value.status = "VERIFIED"
                  /\ th[t].hit = None =>
                        /\ th[t].outcome.invoked
                        /\ th[t].checked = Some(th[t].eff[1])

\* The part of C33 that holds under every interleaving: only the outcome
\* VERIFIED admits an image whose effective policy requires a signature.
C33_OnlyVerifiedAdmits ==
    \A t \in Threads :
        EndedRequired(t) =>
            th[t].outcome.is_allowed = (th[t].outcome.status = "VERIFIED")

---------------------------------------------------------------------------
(* Policies that require no signature, whatever their source: requests
   under policy files where it comes from an exemption, from a namespace
   policy, from an image policy and from the global default *)

OptionalFiles == {FileX, FileC, FileE}
OptionalNamespaces == {"kube-system", "prod", "dev", "default"}

OptionalPods ==
    {Pod(<<Some(ImgN1)>>, <<>>),
     Pod(<<Some(ImgL)>>, <<>>),
     Pod(<<Some(ImgP1)>>, <<Some(ImgN1)>>)}

OptionalRuns ==
    {CosignRun("rc0", Some("s1"), FALSE),
     CosignRun("no_signatures", None, FALSE)}

InitOptional ==
    /\ config_file \in OptionalFiles
    /\ policy_config = _load_policy(PolicyConfiguration, config_file)
    /\ resolved = NoResolution
    /\ policy = create_default_policy
    /\ cache = <<>>
    /\ now = 0
    /\ req = ReqIdle
    /\ last_call = NoCall
    /\ th = [t \in Threads |-> ThIdle]
    /\ loading = Loaded(config_file, 1)
    /\ resolving = NoResolving
    /\ matching = NoMatch
    /\ checking = NoCheck

NextOptional ==
    \/ \E f \in OptionalFiles : Reconfigure(f)
    \/ \E n \in OptionalNamespaces, p \in OptionalPods :
          validate_pod_begin(n, p, None)
    \/ \E out \in OptionalRuns : validate_pod_image(out)
    \/ validate_pod_return
    \/ clear_cache

SpecOptional == InitOptional /\ [][NextOptional]_vars

\* the policy the image about to be verified resolves to
NextEffective ==
    get_policy_for_request(policy_config, req.namespace, req.images[req.i])

\* C34: whenever the effective policy of an image requires no signature,
\* be it by an exemption, a namespace policy, an image policy or the global
\* default, the image is admitted with the same outcome and message, the
\* external verifier does not run, no cache key is computed, and the cache
\* and the verifier's policy stay as they were.
C34_NotRequiredNeverVerified ==
    [][ImageStep /\ ~NextEffective.require_signature =>
          /\ cache' = cache
          /\ policy' = policy
          /\ LET o == req'.outcomes[Len(req'.outcomes)]
             IN  /\ o.is_allowed
                 /\ o.status = "EXEMPT"
                 /\ o.message = "allowed_not_required"
                 /\ o.key = None
                 /\ ~o.invoked]_vars

\* an image that is not exempt was admitted under a policy that requires no
\* signature, while the cache holds a fresh failing outcome for that image
C34_Witness ==
    /\ req.pc \in {"verify", "done"}
    /\ \E j \in 1..Len(req.outcomes) :
           /\ ~req.outcomes[j].effective.require_signature
           /\ req.outcomes[j].is_allowed
           /\ ~IsExempt(policy_config, req.namespace, req.outcomes[j].image)
           /\ \E k \in 1..Len(cache) :
                  /\ cache[k].key.image = req.outcomes[j].image
                  /\ cache[k].value.status # "VERIFIED"
                  /\ now < cache[k].expires

====
